---- MODULE Spec2Model ----
(***************************************************************************)
(* Control plane of the workflow system: ResourceManager (capacity         *)
(* ledger), MasterOrchestrator (command handlers), PhaseManager,           *)
(* QualityAssurance, AgentManager and WorkflowCoordinator.                 *)
(*                                                                         *)
(* Representation.                                                         *)
(*  - u32 values are pairs <<hi, lo>> of 16-bit limbs (value hi*2^16+lo),  *)
(*    so that addition and multiplication wrap modulo 2^32 as they do in   *)
(*    a build without overflow checks; a build with overflow checks        *)
(*    panics instead, and both outcomes are modelled.                      *)
(*  - CPU cores (f64 in the source) are counted in hundredths of a core,   *)
(*    utilisation (an f64 fraction in the source) in percent; rounding of  *)
(*    f64 arithmetic is not modelled.                                      *)
(***************************************************************************)
EXTENDS Integers, Sequences, FiniteSets, TLC

VARIABLES
    rm_state,      \* ResourceManager.state : ResourceState
    rm_allocs,     \* allocations returned by allocate_resources, not yet given back
    rm_sampler,    \* TRUE once ResourceManager::start has spawned the sampler
    rm_ticks,      \* number of sampler ticks so far
    rm_granted,    \* number of allocations granted so far
    rm_last,       \* the last ResourceManager call: operation, arguments, result
    orch_state,    \* MasterOrchestrator.state : OrchestratorState
    workflows,     \* MasterOrchestrator.workflows : id -> WorkflowInfo
    orch_loop,     \* the command loop: "not_started", "running" or "panicked"
    orch_last,     \* the last orchestrator command: command, result, events sent
    pm_state,      \* PhaseManager.state : PhaseState
    pm_last,       \* the last PhaseManager call made directly: operation, result
    qa_state,      \* QualityAssurance.state : QualityState
    qa_standards,  \* QualityAssurance.standards : QualityStandards
    validators,    \* what the deliverable checks of QualityAssurance answer
    qa_last,       \* the last QualityAssurance call made directly
    qa_runs,       \* every validate_phase_completion run so far: inputs and results
    agents,        \* AgentManager.agents : id -> ManagedAgent
    coord_state,   \* WorkflowCoordinator.state : CoordinatorState
    coord_loop,    \* the coordinator's command loop: "not_started" or "running"
    coord_last,    \* the last coordinator command: command, result, events sent
    wm_workflows,  \* WorkflowManager.workflows : id -> ManagedWorkflow
    wm_queue,      \* WorkflowManager.workflow_queue : priority -> ids in arrival order
    wm_last,       \* the last WorkflowManager call: operation, arguments, result
    lh_state,      \* LeadershipHierarchy: coordinators, specialists, decision_matrix
    lh_last,       \* the last LeadershipHierarchy call: operation, arguments, result
    am_last,       \* the last AgentManager call made directly: roster before, result
    cm_state,      \* CommunicationManager.state : CommunicationState
    cm_last,       \* the last CommunicationManager call: operation, result
    cl_actor,      \* the actor whose command channel is followed
    cl_receiver,   \* command_rx : "present" (Some) or "taken" (None)
    cl_calls,      \* each call of start_command_loop: where it stands, its result
    cl_tasks,      \* the loop task each call spawned: its position, its command
    cl_queue,      \* the commands in the channel, oldest first
    cl_sent,       \* every command sent so far, in the order sent
    cl_handled,    \* every command handled so far: command, result, task
    hm_state,      \* SystemHealthMonitor.state : HealthState
    hm_history,    \* SystemHealthMonitor.metrics_history, oldest first
    hm_started,    \* TRUE once SystemHealthMonitor::start has spawned its loop
    hm_checks,     \* number of health checks so far
    hm_last        \* the last health check: metrics read, status, alerts raised

rm_vars == <<rm_state, rm_allocs, rm_sampler, rm_ticks, rm_granted, rm_last>>

orch_vars == <<orch_state, workflows, orch_loop, orch_last>>

pm_vars == <<pm_state, pm_last>>

qa_vars == <<qa_state, qa_standards, validators, qa_last, qa_runs>>

coord_vars == <<agents, coord_state, coord_loop, coord_last>>

wm_vars == <<wm_workflows, wm_queue, wm_last>>

lh_vars == <<lh_state, lh_last>>

\* the components that stand beside the orchestrator and the coordinator
cm_vars == <<cm_state, cm_last>>

\* the command channel of one actor and the tasks that drain it
loop_vars == <<cl_actor, cl_receiver, cl_calls, cl_tasks, cl_queue, cl_sent, cl_handled>>

hm_vars == <<hm_state, hm_history, hm_started, hm_checks, hm_last>>

ext_vars == <<wm_vars, lh_vars, am_last, cm_vars, loop_vars, hm_vars>>

vars == <<rm_vars, orch_vars, pm_vars, qa_vars, coord_vars, ext_vars>>

\* what a ResourceManager call leaves alone
not_rm == <<orch_vars, pm_vars, qa_vars, coord_vars, ext_vars>>

\* what an orchestrator command leaves alone, the ledger apart
not_orch == <<pm_vars, qa_vars, coord_vars, ext_vars>>

\* what a PhaseManager call leaves alone
not_pm == <<rm_vars, orch_vars, qa_vars, coord_vars, ext_vars>>

\* what a QualityAssurance call leaves alone
not_qa == <<rm_vars, orch_vars, pm_vars, coord_vars, ext_vars>>

\* what a coordinator command leaves alone, its components apart
not_coord == <<rm_vars, orch_vars, ext_vars>>

\* the orchestrator and the coordinator with their components
core_vars == <<rm_vars, orch_vars, pm_vars, qa_vars, coord_vars>>

\* what a WorkflowManager call leaves alone
not_wm == <<core_vars, lh_vars, am_last, cm_vars, loop_vars, hm_vars>>

\* what a LeadershipHierarchy call leaves alone
not_lh == <<core_vars, wm_vars, am_last, cm_vars, loop_vars, hm_vars>>

\* what a direct AgentManager call leaves alone
not_am == <<rm_vars, orch_vars, pm_vars, qa_vars, coord_state, coord_loop,
            coord_last, wm_vars, lh_vars, cm_vars, loop_vars, hm_vars>>

\* what a CommunicationManager call leaves alone
not_cm == <<core_vars, wm_vars, lh_vars, am_last, loop_vars, hm_vars>>

\* what the SystemHealthMonitor leaves alone
not_hm == <<core_vars, wm_vars, lh_vars, am_last, cm_vars, loop_vars>>

\* what the command channel and its tasks leave alone, the loop flags apart
not_loop == <<rm_vars, orch_state, workflows, orch_last, pm_vars, qa_vars, agents,
              coord_state, coord_last, wm_vars, lh_vars, am_last, cm_vars, hm_vars>>

----------------------------------------------------------------------------
(* Bounds of the model *)

NumCpus == 4          \* num_cpus::get() of the host
MaxAllocs == 2        \* allocations granted in a run
MaxTicks == 1         \* sampler ticks explored

----------------------------------------------------------------------------
(* u32 arithmetic on 16-bit limbs *)

Limb == 2^16

U32(n) == <<n \div Limb, n % Limb>>

U32Max == <<Limb - 1, Limb - 1>>

Lt32(a, b) == a[1] < b[1] \/ (a[1] = b[1] /\ a[2] < b[2])

Le32(a, b) == a = b \/ Lt32(a, b)

\* a + b without reduction: <<carry, hi, lo>>
AddWide(a, b) ==
    LET lo == a[2] + b[2]
        hi == a[1] + b[1] + (lo \div Limb)
    IN  <<hi \div Limb, hi % Limb, lo % Limb>>

Add32Overflows(a, b) == AddWide(a, b)[1] > 0

\* wrapping_add
Add32(a, b) == <<AddWide(a, b)[2], AddWide(a, b)[3]>>

\* a - b for b <= a
Sub32(a, b) ==
    LET borrow == IF a[2] < b[2] THEN 1 ELSE 0
    IN  <<a[1] - b[1] - borrow, a[2] + borrow * Limb - b[2]>>

\* u32::saturating_sub
SaturatingSub32(a, b) == IF Lt32(a, b) THEN U32(0) ELSE Sub32(a, b)

\* product of two 16-bit limbs as <<high limb, low limb>>, computed bytewise
MulLimb(x, y) ==
    LET p1 == (x \div 256) * y
        p0 == (x % 256) * y
        low == (p1 % 256) * 256 + p0
    IN  <<(p1 \div 256) + (low \div Limb), low % Limb>>

\* a * b without reduction has bits above 2^32
Mul32Overflows(a, b) ==
    \/ a[1] > 0 /\ b[1] > 0
    \/ MulLimb(a[1], b[2])[1] > 0
    \/ MulLimb(a[2], b[1])[1] > 0
    \/ (MulLimb(a[1], b[2])[2] + MulLimb(a[2], b[1])[2] + MulLimb(a[2], b[2])[1]) >= Limb

\* wrapping_mul
Mul32(a, b) ==
    LET ll == MulLimb(a[2], b[2])
        c1 == MulLimb(a[1], b[2])[2]
        c2 == MulLimb(a[2], b[1])[2]
    IN  <<(c1 + c2 + ll[1]) % Limb, ll[2]>>

----------------------------------------------------------------------------
(* ResourceManager *)

Cores(n) == n * 100

TotalMemoryMb == 4096
MinMemoryMb == 512
MaxAgentsDefault == 100
MaxWorkflowsDefault == 20
HistoryCap == 100

\* ResourceManager::new
ResourceManagerNew ==
    [ total_cpu_cores      |-> Cores(NumCpus),
      available_cpu_cores  |-> Cores(NumCpus),
      total_memory_mb      |-> TotalMemoryMb,
      available_memory_mb  |-> TotalMemoryMb,
      active_agents        |-> U32(0),
      max_agents           |-> U32(MaxAgentsDefault),
      active_workflows     |-> U32(0),
      max_workflows        |-> U32(MaxWorkflowsDefault),
      utilization_history  |-> << >> ]

\* the counters of a ResourceState that a ledger operation may touch
Ledger(s) ==
    [ available_cpu_cores |-> s.available_cpu_cores,
      available_memory_mb |-> s.available_memory_mb,
      active_agents       |-> s.active_agents,
      max_agents          |-> s.max_agents,
      active_workflows    |-> s.active_workflows,
      max_workflows       |-> s.max_workflows ]

NoCall == [op |-> "none"]

\* requests presented to allocate_resources
ResourceRequests ==
    { [cpu_cores |-> Cores(2), memory_mb |-> 1024, agent_count |-> U32(3)],
      [cpu_cores |-> Cores(5), memory_mb |-> 1024, agent_count |-> U32(3)],
      [cpu_cores |-> Cores(2), memory_mb |-> 8192, agent_count |-> U32(3)],
      [cpu_cores |-> Cores(2), memory_mb |-> 1024, agent_count |-> U32(101)],
      [cpu_cores |-> Cores(2), memory_mb |-> 1024, agent_count |-> U32Max] }

\* readings of get_cpu_usage / get_memory_usage, in percent
UsageReadings == { <<0, 0>>, <<90, 0>>, <<0, 90>> }

\* arguments of scale
ScaleArgs == { <<U32(1), U32(10)>>, <<U32(20), U32(10)>>, <<U32(65536), U32(65536)>> }

\* can_allocate_workflow with the workflow limit compared by <= instead of <
CanAllocateWorkflow_AtLimit(s) ==
    /\ Le32(s.active_workflows, s.max_workflows)
    /\ s.available_cpu_cores >= Cores(1)
    /\ s.available_memory_mb >= MinMemoryMb

\* ResourceManager::can_allocate_workflow
CanAllocateWorkflow(s) ==
    /\ Lt32(s.active_workflows, s.max_workflows)
    /\ s.available_cpu_cores >= Cores(1)
    /\ s.available_memory_mb >= MinMemoryMb

\* outcome of allocate_resources: "None", "Some", or "panic" (integer overflow
\* of active_agents + agent_count in a build with overflow checks)
AllocateOutcome(s, req, overflow_checks) ==
    IF \/ s.available_cpu_cores < req.cpu_cores
       \/ s.available_memory_mb < req.memory_mb
    THEN "None"
    ELSE IF overflow_checks /\ Add32Overflows(s.active_agents, req.agent_count)
    THEN "panic"
    ELSE IF \/ Lt32(s.max_agents, Add32(s.active_agents, req.agent_count))
            \/ ~ Lt32(s.active_workflows, s.max_workflows)
    THEN "None"
    ELSE "Some"

\* the state after a granted allocate_resources
AllocateApply(s, req) ==
    [s EXCEPT !.available_cpu_cores = @ - req.cpu_cores,
              !.available_memory_mb = @ - req.memory_mb,
              !.active_agents = Add32(@, req.agent_count),
              !.active_workflows = Add32(@, U32(1))]

\* the ResourceAllocation returned
AllocationOf(req) ==
    [ allocated_cpu    |-> req.cpu_cores,
      allocated_memory |-> req.memory_mb,
      allocated_agents |-> req.agent_count ]

\* ResourceManager::allocate_resources
AllocateResources(req, overflow_checks) ==
    LET outcome == AllocateOutcome(rm_state, req, overflow_checks) IN
    /\ rm_granted < MaxAllocs
    /\ rm_granted' = IF outcome = "Some" THEN rm_granted + 1 ELSE rm_granted
    /\ rm_state' = IF outcome = "Some" THEN AllocateApply(rm_state, req) ELSE rm_state
    /\ rm_allocs' = IF outcome = "Some" THEN Append(rm_allocs, AllocationOf(req))
                    ELSE rm_allocs
    /\ rm_last' = [op |-> "allocate", request |-> req, result |-> outcome,
                   pre |-> Ledger(rm_state)]
    /\ UNCHANGED <<rm_sampler, rm_ticks, not_rm>>

\* the state after deallocate_resources
DeallocateApply(s, allocation) ==
    [s EXCEPT !.available_cpu_cores = @ + allocation.allocated_cpu,
              !.available_memory_mb = @ + allocation.allocated_memory,
              !.active_agents = SaturatingSub32(@, allocation.allocated_agents),
              !.active_workflows = SaturatingSub32(@, U32(1))]

RemoveAt(seq, i) == SubSeq(seq, 1, i - 1) \o SubSeq(seq, i + 1, Len(seq))

\* ResourceManager::deallocate_resources, called with an outstanding allocation
DeallocateResources(i) ==
    /\ i \in 1..Len(rm_allocs)
    /\ rm_state' = DeallocateApply(rm_state, rm_allocs[i])
    /\ rm_allocs' = RemoveAt(rm_allocs, i)
    /\ rm_last' = [op |-> "deallocate", allocation |-> rm_allocs[i],
                   \* TRUE when this call directly follows the allocate_resources
                   \* call that returned the allocation
                   round_trip |-> /\ rm_last.op = "allocate"
                                  /\ rm_last.result = "Some"
                                  /\ i = Len(rm_allocs),
                   pre |-> IF rm_last.op = "allocate" THEN rm_last.pre
                           ELSE Ledger(rm_state)]
    /\ UNCHANGED <<rm_sampler, rm_ticks, rm_granted, not_rm>>

\* the state after scale; with overflow checks the product panics after
\* max_workflows has been written
ScaleApply(s, target_workflows, max_agents_per_workflow, overflow_checks) ==
    IF overflow_checks /\ Mul32Overflows(target_workflows, max_agents_per_workflow)
    THEN [s EXCEPT !.max_workflows = target_workflows]
    ELSE [s EXCEPT !.max_workflows = target_workflows,
                   !.max_agents = Mul32(target_workflows, max_agents_per_workflow)]

ScalePanics(target_workflows, max_agents_per_workflow, overflow_checks) ==
    overflow_checks /\ Mul32Overflows(target_workflows, max_agents_per_workflow)

\* ResourceManager::scale
Scale(target_workflows, max_agents_per_workflow, overflow_checks) ==
    /\ rm_state' = ScaleApply(rm_state, target_workflows, max_agents_per_workflow,
                              overflow_checks)
    /\ rm_last' = [op |-> "scale",
                   result |-> IF ScalePanics(target_workflows, max_agents_per_workflow,
                                             overflow_checks)
                              THEN "panic" ELSE "Ok"]
    /\ UNCHANGED <<rm_allocs, rm_sampler, rm_ticks, rm_granted, not_rm>>

\* the history as it would be if a full history refused the new snapshot
PushSnapshot_DropNewest(history, snapshot) ==
    IF Len(history) >= HistoryCap THEN history ELSE Append(history, snapshot)

\* the history after one more snapshot
PushSnapshot(history, snapshot) ==
    LET pushed == Append(history, snapshot) IN
    IF Len(pushed) > HistoryCap THEN Tail(pushed) ELSE pushed

\* the state after update_resource_metrics read current_cpu and current_memory
UpdateResourceMetricsApply(s, current_cpu, current_memory) ==
    [s EXCEPT !.available_cpu_cores = (s.total_cpu_cores * (100 - current_cpu)) \div 100,
              !.available_memory_mb = (s.total_memory_mb * (100 - current_memory)) \div 100,
              !.utilization_history =
                  PushSnapshot(@, [ cpu_utilization    |-> current_cpu,
                                    memory_utilization |-> current_memory,
                                    agent_count        |-> s.active_agents,
                                    workflow_count     |-> s.active_workflows ])]

\* ResourceManager::start: spawns the sampler
ResourceManagerStart ==
    /\ ~ rm_sampler
    /\ rm_sampler' = TRUE
    /\ UNCHANGED <<rm_state, rm_allocs, rm_ticks, rm_granted, rm_last, not_rm>>

\* one tick of the sampler: update_resource_metrics, within limit ticks
UpdateResourceMetricsWithin(limit, current_cpu, current_memory) ==
    /\ rm_sampler
    /\ rm_ticks < limit
    /\ rm_ticks' = rm_ticks + 1
    /\ rm_state' = UpdateResourceMetricsApply(rm_state, current_cpu, current_memory)
    /\ rm_last' = [op |-> "tick"]
    /\ UNCHANGED <<rm_allocs, rm_sampler, rm_granted, not_rm>>

UpdateResourceMetrics(current_cpu, current_memory) ==
    UpdateResourceMetricsWithin(MaxTicks, current_cpu, current_memory)

\* a call of can_allocate_workflow
CanAllocateWorkflowCall ==
    /\ rm_last' = [op |-> "can_allocate_workflow", result |-> CanAllocateWorkflow(rm_state)]
    /\ UNCHANGED <<rm_state, rm_allocs, rm_sampler, rm_ticks, rm_granted, not_rm>>

RMInit ==
    /\ rm_state = ResourceManagerNew
    /\ rm_allocs = << >>
    /\ rm_sampler = FALSE
    /\ rm_ticks = 0
    /\ rm_granted = 0
    /\ rm_last = NoCall

RMNext ==
    \/ ResourceManagerStart
    \/ \E req \in ResourceRequests, oc \in BOOLEAN : AllocateResources(req, oc)
    \/ \E i \in 1..MaxAllocs : DeallocateResources(i)
    \/ \E a \in ScaleArgs, oc \in BOOLEAN : Scale(a[1], a[2], oc)
    \/ \E u \in UsageReadings : UpdateResourceMetrics(u[1], u[2])
    \/ CanAllocateWorkflowCall


----------------------------------------------------------------------------
(* MasterOrchestrator *)

MaxCreated == 2       \* CreateWorkflow commands admitted in a run

WorkflowTypes == {"code-review", "swarm"}
WorkflowPriority == {"Critical", "High", "Medium", "Low"}
\* priorities given in commands
PrioritiesGiven == {"High", "Low"}
WorkflowIds == 1..MaxCreated

\* MasterOrchestrator::new
OrchestratorNew ==
    [ status              |-> "Starting",
      total_workflows     |-> 0,
      active_workflows    |-> 0,
      completed_workflows |-> 0,
      failed_workflows    |-> 0 ]

\* create_workflow as it would be if it inserted the workflow already planning
NewWorkflowInfo_Planning(workflow_type, priority) ==
    [ workflow_type |-> workflow_type,
      status        |-> "Planning",
      priority      |-> priority,
      started_at    |-> "None",
      completed_at  |-> "None" ]

\* the WorkflowInfo that create_workflow inserts
NewWorkflowInfo(workflow_type, priority) ==
    [ workflow_type |-> workflow_type,
      status        |-> "Queued",
      priority      |-> priority,
      started_at    |-> "None",
      completed_at  |-> "None" ]

\* Uuid::new_v4: an id not handed out before
FreshWorkflowId == orch_state.total_workflows + 1

\* DashMap::insert
MapInsert(map, key, value) ==
    [k \in DOMAIN map \cup {key} |-> IF k = key THEN value ELSE map[k]]

\* DashMap::remove
MapRemove(map, key) == [k \in DOMAIN map \ {key} |-> map[k]]

\* MasterOrchestrator::start
OrchestratorStart ==
    /\ orch_state' = [orch_state EXCEPT !.status = "Active"]
    /\ rm_sampler' = TRUE
    /\ orch_loop' = IF orch_loop = "not_started" THEN "running" ELSE orch_loop
    /\ orch_last' = [cmd |-> "start",
                     result |-> IF orch_loop = "not_started" THEN "Ok" ELSE "Err",
                     events |-> << >>]
    /\ UNCHANGED <<rm_state, rm_allocs, rm_ticks, rm_granted, rm_last, workflows, not_orch>>

\* create_workflow as it would be if it counted the workflow before asking
\* the ResourceManager
CreateWorkflow_CountingFirst(workflow_type, priority) ==
    /\ orch_loop = "running"
    /\ orch_state.total_workflows < MaxCreated
    /\ orch_state' = [orch_state EXCEPT !.total_workflows = @ + 1,
                                        !.active_workflows = @ + 1]
    /\ IF ~ CanAllocateWorkflow(rm_state)
       THEN /\ orch_last' = [cmd |-> "CreateWorkflow", result |-> "Err", events |-> << >>]
            /\ UNCHANGED workflows
       ELSE /\ workflows' = MapInsert(workflows, FreshWorkflowId,
                                      NewWorkflowInfo(workflow_type, priority))
            /\ orch_last' = [cmd |-> "CreateWorkflow", result |-> "Ok",
                             events |-> << [event |-> "WorkflowCreated",
                                            workflow_id |-> FreshWorkflowId,
                                            workflow_type |-> workflow_type] >>]
    /\ UNCHANGED <<rm_vars, orch_loop, not_orch>>

\* handle_command(CreateWorkflow) -> create_workflow
CreateWorkflow(workflow_type, priority) ==
    /\ orch_loop = "running"
    /\ orch_state.total_workflows < MaxCreated
    /\ IF ~ CanAllocateWorkflow(rm_state)
       THEN /\ orch_last' = [cmd |-> "CreateWorkflow", result |-> "Err", events |-> << >>]
            /\ UNCHANGED <<orch_state, workflows>>
       ELSE /\ workflows' = MapInsert(workflows, FreshWorkflowId,
                                      NewWorkflowInfo(workflow_type, priority))
            /\ orch_state' = [orch_state EXCEPT !.total_workflows = @ + 1,
                                                !.active_workflows = @ + 1]
            /\ orch_last' = [cmd |-> "CreateWorkflow", result |-> "Ok",
                             events |-> << [event |-> "WorkflowCreated",
                                            workflow_id |-> FreshWorkflowId,
                                            workflow_type |-> workflow_type] >>]
    /\ UNCHANGED <<rm_vars, orch_loop, not_orch>>

\* handle_command(UpdateWorkflowPriority) -> update_workflow_priority
UpdateWorkflowPriority(workflow_id, priority) ==
    /\ orch_loop = "running"
    /\ workflows' = IF workflow_id \in DOMAIN workflows
                    THEN [workflows EXCEPT ![workflow_id].priority = priority]
                    ELSE workflows
    /\ orch_last' = [cmd |-> "UpdateWorkflowPriority", result |-> "Ok", events |-> << >>]
    /\ UNCHANGED <<rm_vars, orch_state, orch_loop, not_orch>>

\* handle_command(PauseWorkflow) -> pause_workflow
PauseWorkflow(workflow_id) ==
    /\ orch_loop = "running"
    /\ IF workflow_id \in DOMAIN workflows
       THEN /\ workflows' = [workflows EXCEPT ![workflow_id].status = "Paused"]
            /\ orch_last' = [cmd |-> "PauseWorkflow", result |-> "Ok",
                             events |-> << [event |-> "WorkflowStatusChanged",
                                            workflow_id |-> workflow_id,
                                            old_status |-> workflows[workflow_id].status,
                                            new_status |-> "Paused"] >>]
       ELSE /\ workflows' = workflows
            /\ orch_last' = [cmd |-> "PauseWorkflow", result |-> "Ok", events |-> << >>]
    /\ UNCHANGED <<rm_vars, orch_state, orch_loop, not_orch>>

\* the status resume_workflow chooses
ResumedStatus(workflow) ==
    IF workflow.started_at # "None" THEN "Execute" ELSE "Planning"

\* handle_command(ResumeWorkflow) -> resume_workflow
ResumeWorkflow(workflow_id) ==
    /\ orch_loop = "running"
    /\ IF workflow_id \in DOMAIN workflows
       THEN /\ workflows' = [workflows EXCEPT
                                ![workflow_id].status = ResumedStatus(workflows[workflow_id])]
            /\ orch_last' = [cmd |-> "ResumeWorkflow", result |-> "Ok",
                             events |-> << [event |-> "WorkflowStatusChanged",
                                            workflow_id |-> workflow_id,
                                            old_status |-> workflows[workflow_id].status,
                                            new_status |-> ResumedStatus(workflows[workflow_id])] >>]
       ELSE /\ workflows' = workflows
            /\ orch_last' = [cmd |-> "ResumeWorkflow", result |-> "Ok", events |-> << >>]
    /\ UNCHANGED <<rm_vars, orch_state, orch_loop, not_orch>>

\* u64::saturating_sub(1)
SaturatingDec(n) == IF n = 0 THEN 0 ELSE n - 1

\* cancel_workflow as it would be if it marked the entry Failed and kept it
CancelRegistry_KeepEntry(registry, workflow_id) ==
    [registry EXCEPT ![workflow_id].status = "Failed",
                     ![workflow_id].completed_at = "Some"]

\* the registry after cancel_workflow
CancelRegistry(registry, workflow_id) == MapRemove(registry, workflow_id)

\* cancel_workflow as it would be if it left active_workflows alone
CancelCounters_KeepActive(state) ==
    [state EXCEPT !.failed_workflows = @ + 1]

\* the counters after cancel_workflow removed an entry
CancelCounters(state) ==
    [state EXCEPT !.active_workflows = SaturatingDec(@),
                  !.failed_workflows = @ + 1]

\* handle_command(CancelWorkflow) -> cancel_workflow
CancelWorkflow(workflow_id) ==
    /\ orch_loop = "running"
    /\ IF workflow_id \in DOMAIN workflows
       THEN /\ workflows' = CancelRegistry(workflows, workflow_id)
            /\ orch_state' = CancelCounters(orch_state)
       ELSE UNCHANGED <<workflows, orch_state>>
    /\ orch_last' = [cmd |-> "CancelWorkflow", result |-> "Ok", events |-> << >>]
    /\ UNCHANGED <<rm_vars, orch_loop, not_orch>>

\* handle_command(ScaleResources) -> scale_resources; a panic inside the
\* handler ends the command loop task
ScaleResources(target_workflows, max_agents_per_workflow, overflow_checks) ==
    LET panics == ScalePanics(target_workflows, max_agents_per_workflow, overflow_checks) IN
    /\ orch_loop = "running"
    /\ rm_state' = ScaleApply(rm_state, target_workflows, max_agents_per_workflow,
                              overflow_checks)
    /\ orch_state' = IF panics THEN orch_state ELSE [orch_state EXCEPT !.status = "Scaling"]
    /\ orch_loop' = IF panics THEN "panicked" ELSE orch_loop
    /\ orch_last' = [cmd |-> "ScaleResources",
                     result |-> IF panics THEN "panic" ELSE "Ok", events |-> << >>]
    /\ UNCHANGED <<rm_allocs, rm_sampler, rm_ticks, rm_granted, rm_last, workflows, not_orch>>

RECURSIVE CancelAllCounters(_, _)
\* the counters after cancel_workflow ran for n registry entries
CancelAllCounters(state, n) ==
    IF n = 0 THEN state ELSE CancelAllCounters(CancelCounters(state), n - 1)

\* handle_command(EmergencyShutdown) -> emergency_shutdown
EmergencyShutdown ==
    /\ orch_loop = "running"
    /\ workflows' = << >>
    /\ orch_state' = [CancelAllCounters(orch_state, Cardinality(DOMAIN workflows))
                         EXCEPT !.status = "Shutdown"]
    /\ orch_last' = [cmd |-> "EmergencyShutdown", result |-> "Ok",
                     events |-> << [event |-> "EmergencyAlert", severity |-> "Critical",
                                    affected_workflows |-> {}] >>]
    /\ UNCHANGED <<rm_vars, orch_loop, not_orch>>

\* handle_command(GetStatus)
GetStatus ==
    /\ orch_loop = "running"
    /\ orch_last' = [cmd |-> "GetStatus", result |-> "Ok", events |-> << >>]
    /\ UNCHANGED <<rm_vars, orch_state, workflows, orch_loop, not_orch>>

OrchInit ==
    /\ orch_state = OrchestratorNew
    /\ workflows = << >>
    /\ orch_loop = "not_started"
    /\ orch_last = [cmd |-> "none", result |-> "Ok", events |-> << >>]

OrchNext ==
    \/ OrchestratorStart
    \/ \E t \in WorkflowTypes, p \in PrioritiesGiven : CreateWorkflow(t, p)
    \/ \E w \in WorkflowIds, p \in PrioritiesGiven : UpdateWorkflowPriority(w, p)
    \/ \E w \in WorkflowIds : PauseWorkflow(w)
    \/ \E w \in WorkflowIds : ResumeWorkflow(w)
    \/ \E w \in WorkflowIds : CancelWorkflow(w)
    \/ \E a \in ScaleArgs, oc \in BOOLEAN : ScaleResources(a[1], a[2], oc)
    \/ EmergencyShutdown
    \/ GetStatus
    \/ \E u \in UsageReadings : UpdateResourceMetrics(u[1], u[2])

\* the sampler readings that decide admission: idle, and CPU nearly used up
AdmissionReadings == { <<0, 0>>, <<90, 0>> }

\* arguments of ScaleResources: a product that fits u32 and one that does not
ScaleCommandArgs == { <<U32(20), U32(10)>>, <<U32(65536), U32(65536)>> }

\* the orchestrator's command handlers on workflows of one type, with the
\* sampler readings that decide admission
OrchCommandNext ==
    \/ OrchestratorStart
    \/ \E p \in PrioritiesGiven : CreateWorkflow("code-review", p)
    \/ \E w \in WorkflowIds, p \in PrioritiesGiven : UpdateWorkflowPriority(w, p)
    \/ \E w \in WorkflowIds : PauseWorkflow(w)
    \/ \E w \in WorkflowIds : ResumeWorkflow(w)
    \/ \E w \in WorkflowIds : CancelWorkflow(w)
    \/ \E a \in ScaleCommandArgs, oc \in BOOLEAN : ScaleResources(a[1], a[2], oc)
    \/ EmergencyShutdown
    \/ GetStatus
    \/ \E u \in AdmissionReadings : UpdateResourceMetrics(u[1], u[2])

----------------------------------------------------------------------------
(* PhaseManager *)

MaxHistory == 2       \* phase_history records in a run

WorkflowPhase == {"Planning", "Requirements", "Design", "Tasks", "Execute"}

\* PhaseRequirements::default
PhaseRequirementsDefault ==
    [ planning     |-> [ objectives_defined      |-> FALSE,
                         scope_documented        |-> FALSE,
                         stakeholders_identified |-> FALSE,
                         timeline_estimated      |-> FALSE ],
      requirements |-> [ ears_format_used            |-> FALSE,
                         functional_requirements     |-> 0,
                         non_functional_requirements |-> 0,
                         acceptance_criteria_defined |-> FALSE ],
      design       |-> [ architecture_documented |-> FALSE,
                         components_identified   |-> FALSE,
                         interfaces_defined      |-> FALSE,
                         data_flow_mapped        |-> FALSE ],
      tasks        |-> [ tasks_broken_down            |-> FALSE,
                         acceptance_criteria_per_task |-> FALSE,
                         dependencies_mapped          |-> FALSE,
                         effort_estimated             |-> FALSE ],
      execute      |-> [ tdd_cycle_followed    |-> FALSE,
                         tests_written_first   |-> FALSE,
                         code_reviewed         |-> FALSE,
                         refactoring_completed |-> FALSE ] ]

\* PhaseManager::new
PhaseManagerNew ==
    [ current_phase      |-> "Planning",
      phase_history      |-> << >>,
      phase_requirements |-> PhaseRequirementsDefault,
      outputs_generated  |-> << >> ]

\* PlanningRequirements::all_met
PlanningAllMet(r) ==
    r.objectives_defined /\ r.scope_documented /\
    r.stakeholders_identified /\ r.timeline_estimated

\* RequirementsPhaseRequirements::all_met
RequirementsAllMet(r) ==
    r.ears_format_used /\ r.functional_requirements > 0 /\
    r.non_functional_requirements > 0 /\ r.acceptance_criteria_defined

\* DesignRequirements::all_met
DesignAllMet(r) ==
    r.architecture_documented /\ r.components_identified /\
    r.interfaces_defined /\ r.data_flow_mapped

\* TasksRequirements::all_met
TasksAllMet(r) ==
    r.tasks_broken_down /\ r.acceptance_criteria_per_task /\
    r.dependencies_mapped /\ r.effort_estimated

\* ExecuteRequirements::all_met
ExecuteAllMet(r) ==
    r.tdd_cycle_followed /\ r.tests_written_first /\
    r.code_reviewed /\ r.refactoring_completed

\* can_transition_to, first match: the requirements of the current phase
RequirementsMet(state) ==
    CASE state.current_phase = "Planning"     -> PlanningAllMet(state.phase_requirements.planning)
      [] state.current_phase = "Requirements" -> RequirementsAllMet(state.phase_requirements.requirements)
      [] state.current_phase = "Design"       -> DesignAllMet(state.phase_requirements.design)
      [] state.current_phase = "Tasks"        -> TasksAllMet(state.phase_requirements.tasks)
      [] state.current_phase = "Execute"      -> ExecuteAllMet(state.phase_requirements.execute)

\* the second match with one more pair listed, Planning -> Tasks
ValidTransition_Skipping(current, target) ==
    \/ current = "Planning" /\ target = "Requirements"
    \/ current = "Planning" /\ target = "Tasks"
    \/ current = "Requirements" /\ target = "Design"
    \/ current = "Design" /\ target = "Tasks"
    \/ current = "Tasks" /\ target = "Execute"
    \/ current = target

\* can_transition_to, second match: sequential progression or re-entry
ValidTransition(current, target) ==
    \/ current = "Planning" /\ target = "Requirements"
    \/ current = "Requirements" /\ target = "Design"
    \/ current = "Design" /\ target = "Tasks"
    \/ current = "Tasks" /\ target = "Execute"
    \/ current = target

\* can_transition_to without its two matches
CanTransitionTo_Unchecked(state, target_phase) == TRUE

\* PhaseManager::can_transition_to
CanTransitionTo(state, target_phase) ==
    RequirementsMet(state) /\ ValidTransition(state.current_phase, target_phase)

\* PhaseManager::get_phase_outputs
GetPhaseOutputs(phase) ==
    CASE phase = "Planning"     -> <<"project_scope.md", "objectives.md", "timeline.md">>
      [] phase = "Requirements" -> <<"requirements.md", "ears_specifications.md",
                                     "acceptance_criteria.md">>
      [] phase = "Design"       -> <<"architecture.md", "system_design.md",
                                     "component_diagram.png">>
      [] phase = "Tasks"        -> <<"task_breakdown.md", "task_dependencies.md",
                                     "effort_estimates.md">>
      [] phase = "Execute"      -> <<"implementation/", "tests/", "documentation/">>

\* the state after PhaseManager::initialize_phase
InitializePhaseApply(state, phase) ==
    [state EXCEPT !.current_phase = phase,
                  !.phase_history = Append(@, [ from_phase       |-> "None",
                                                to_phase         |-> phase,
                                                requirements_met |-> FALSE,
                                                outputs          |-> << >>,
                                                quality_score    |-> 0 ])]

\* the state after PhaseManager::transition_to_phase
TransitionToPhaseApply(state, target_phase) ==
    [state EXCEPT !.phase_history = Append(@, [ from_phase       |-> state.current_phase,
                                                to_phase         |-> target_phase,
                                                requirements_met |-> TRUE,
                                                outputs          |-> GetPhaseOutputs(target_phase),
                                                quality_score    |-> 85 ]),
                  !.current_phase = target_phase,
                  !.outputs_generated = @ \o GetPhaseOutputs(target_phase)]

\* a direct call of initialize_phase
InitializePhase(phase) ==
    /\ Len(pm_state.phase_history) < MaxHistory
    /\ pm_state' = InitializePhaseApply(pm_state, phase)
    /\ pm_last' = [op |-> "initialize_phase", phase |-> phase, result |-> TRUE]
    /\ UNCHANGED not_pm

\* a direct call of can_transition_to
CanTransitionToCall(target_phase) ==
    /\ pm_last' = [op |-> "can_transition_to", phase |-> target_phase,
                   result |-> CanTransitionTo(pm_state, target_phase)]
    /\ UNCHANGED <<pm_state, not_pm>>

\* a direct call of transition_to_phase
TransitionToPhase(target_phase) ==
    /\ Len(pm_state.phase_history) < MaxHistory
    /\ pm_state' = TransitionToPhaseApply(pm_state, target_phase)
    /\ pm_last' = [op |-> "transition_to_phase", phase |-> target_phase, result |-> TRUE]
    /\ UNCHANGED not_pm

PMInit ==
    /\ pm_state = PhaseManagerNew
    /\ pm_last = [op |-> "none"]

PMNext ==
    \/ \E p \in WorkflowPhase : InitializePhase(p)
    \/ \E p \in WorkflowPhase : CanTransitionToCall(p)
    \/ \E p \in WorkflowPhase : TransitionToPhase(p)

----------------------------------------------------------------------------
(* QualityAssurance *)

MaxValidations == 2   \* validate_phase_completion calls in a run

MinimumScoreDefault == 75

\* minimum_score values given to update_standards
MinimumScores == {70, MinimumScoreDefault}

\* QualityAssurance::new, state
QualityStateNew ==
    [ current_score |-> 100,
      phase_scores  |-> << >>,
      active_issues |-> << >>,
      metrics       |-> [ phases_validated  |-> 0,
                          issues_identified |-> 0,
                          issues_resolved   |-> 0 ] ]

\* QualityStandards::default (the field validate_phase_completion reads)
QualityStandardsDefault == [minimum_score |-> MinimumScoreDefault]

\* the placeholder checks of the source, which all answer true
ValidatorsOfSource ==
    [ has_clear_objectives           |-> TRUE,
      has_documented_scope           |-> TRUE,
      uses_ears_format               |-> TRUE,
      has_complete_requirements      |-> TRUE,
      has_architecture_documentation |-> TRUE,
      has_proper_task_breakdown      |-> TRUE,
      follows_tdd_cycle              |-> TRUE,
      meets_code_quality_standards   |-> TRUE ]

\* every answer an implementation of the checks could give
ValidatorAnswers ==
    [ has_clear_objectives           : BOOLEAN,
      has_documented_scope           : BOOLEAN,
      uses_ears_format               : BOOLEAN,
      has_complete_requirements      : BOOLEAN,
      has_architecture_documentation : BOOLEAN,
      has_proper_task_breakdown      : BOOLEAN,
      follows_tdd_cycle              : BOOLEAN,
      meets_code_quality_standards   : BOOLEAN ]

QualityIssue(severity, category, description, phase) ==
    [ severity |-> severity, category |-> category, description |-> description,
      phase |-> phase, resolved |-> FALSE ]

\* f64::max(0.0)
Max0(x) == IF x < 0 THEN 0 ELSE x

\* one check of a validate_*_phase function: a failed check pushes its issue
\* and subtracts its penalty
Check(acc, ok, issue, penalty) ==
    IF ok THEN acc
    ELSE [score |-> acc.score - penalty, issues |-> Append(acc.issues, issue)]

CheckStart == [score |-> 100, issues |-> << >>]

Finish(acc) == [score |-> Max0(acc.score), issues |-> acc.issues]

\* QualityAssurance::validate_planning_phase
ValidatePlanningPhase(v) ==
    Finish(Check(Check(CheckStart,
        v.has_clear_objectives,
        QualityIssue("High", "Process", "Objectives are not clearly defined", "Planning"), 20),
        v.has_documented_scope,
        QualityIssue("Medium", "Documentation",
                     "Project scope is not adequately documented", "Planning"), 15))

\* validate_requirements_phase with 20 instead of 30 for the EARS check
ValidateRequirementsPhase_Lenient(v) ==
    Finish(Check(Check(CheckStart,
        v.uses_ears_format,
        QualityIssue("Critical", "Process",
                     "Requirements not in EARS format (WHEN...THEN...)", "Requirements"), 20),
        v.has_complete_requirements,
        QualityIssue("High", "Documentation",
                     "Requirements documentation is incomplete", "Requirements"), 25))

\* QualityAssurance::validate_requirements_phase
ValidateRequirementsPhase(v) ==
    Finish(Check(Check(CheckStart,
        v.uses_ears_format,
        QualityIssue("Critical", "Process",
                     "Requirements not in EARS format (WHEN...THEN...)", "Requirements"), 30),
        v.has_complete_requirements,
        QualityIssue("High", "Documentation",
                     "Requirements documentation is incomplete", "Requirements"), 25))

\* QualityAssurance::validate_design_phase
ValidateDesignPhase(v) ==
    Finish(Check(CheckStart,
        v.has_architecture_documentation,
        QualityIssue("High", "Architecture",
                     "Architecture documentation is missing or incomplete", "Design"), 25))

\* QualityAssurance::validate_tasks_phase
ValidateTasksPhase(v) ==
    Finish(Check(CheckStart,
        v.has_proper_task_breakdown,
        QualityIssue("Medium", "Process",
                     "Tasks are not properly broken down with acceptance criteria", "Tasks"), 20))

\* QualityAssurance::validate_execute_phase
ValidateExecutePhase(v) ==
    Finish(Check(Check(CheckStart,
        v.follows_tdd_cycle,
        QualityIssue("High", "Testing", "TDD cycle not followed (Red -> Green -> Refactor)",
                     "Execute"), 30),
        v.meets_code_quality_standards,
        QualityIssue("Medium", "CodeQuality", "Code does not meet quality standards",
                     "Execute"), 20))

\* validate_phase_completion, the match on the phase
ValidatePhase(v, phase) ==
    CASE phase = "Planning"     -> ValidatePlanningPhase(v)
      [] phase = "Requirements" -> ValidateRequirementsPhase(v)
      [] phase = "Design"       -> ValidateDesignPhase(v)
      [] phase = "Tasks"        -> ValidateTasksPhase(v)
      [] phase = "Execute"      -> ValidateExecutePhase(v)

\* validate_phase_completion starting from the score the state holds
\* instead of from 100
ValidatePhaseCompletionApply_Accumulating(state, v, phase) ==
    LET outcome == ValidatePhase(v, phase)
        issues  == state.active_issues \o outcome.issues
        score   == Max0(state.current_score - (100 - outcome.score))
    IN  [state EXCEPT !.phase_scores = MapInsert(@, phase, score),
                      !.active_issues = issues,
                      !.current_score = score,
                      !.metrics.phases_validated = @ + 1,
                      !.metrics.issues_identified = @ + Len(issues)]

\* the state after validate_phase_completion
ValidatePhaseCompletionApply(state, v, phase) ==
    LET outcome == ValidatePhase(v, phase)
        issues  == state.active_issues \o outcome.issues
    IN  [state EXCEPT !.phase_scores = MapInsert(@, phase, outcome.score),
                      !.active_issues = issues,
                      !.current_score = outcome.score,
                      !.metrics.phases_validated = @ + 1,
                      !.metrics.issues_identified = @ + Len(issues)]

\* what validate_phase_completion returns
ValidatePhaseCompletionPassed(standards, v, phase) ==
    ValidatePhase(v, phase).score >= standards.minimum_score

\* QualityAssurance::get_current_issues
GetCurrentIssues(state) ==
    LET unresolved == SelectSeq(state.active_issues, LAMBDA issue : ~ issue.resolved)
    IN  [i \in 1..Len(unresolved) |->
            <<unresolved[i].severity, unresolved[i].description>>]

\* the record of one validate_phase_completion run: what it was given (the
\* phase, the minimum score, the state it started from) and what it produced
RunRecord(before, after, standards, v, phase) ==
    [ nth           |-> before.metrics.phases_validated,
      phase         |-> phase,
      minimum_score |-> standards.minimum_score,
      score         |-> after.current_score,
      passed        |-> ValidatePhaseCompletionPassed(standards, v, phase) ]

\* a direct call of validate_phase_completion
ValidatePhaseCompletion(phase) ==
    /\ qa_state.metrics.phases_validated < MaxValidations
    /\ qa_state' = ValidatePhaseCompletionApply(qa_state, validators, phase)
    /\ qa_runs' = qa_runs \cup
                    {RunRecord(qa_state, qa_state', qa_standards, validators, phase)}
    /\ qa_last' = [op |-> "validate_phase_completion", phase |-> phase,
                   passed |-> ValidatePhaseCompletionPassed(qa_standards, validators, phase),
                   issues_before |-> Len(qa_state.active_issues)]
    /\ UNCHANGED <<qa_standards, validators, not_qa>>

\* a direct call of update_standards
UpdateStandards(new_standards) ==
    /\ qa_standards' = new_standards
    /\ qa_last' = [op |-> "update_standards"]
    /\ UNCHANGED <<qa_state, validators, qa_runs, not_qa>>

QAInit ==
    /\ qa_state = QualityStateNew
    /\ qa_standards = QualityStandardsDefault
    /\ validators = ValidatorsOfSource
    /\ qa_last = [op |-> "none"]
    /\ qa_runs = {}

QANext ==
    \/ \E p \in WorkflowPhase : ValidatePhaseCompletion(p)
    \/ \E m \in MinimumScores : UpdateStandards([minimum_score |-> m])

----------------------------------------------------------------------------
(* AgentManager *)

MaxAgents == 1        \* agent ids in use
MaxAssigns == 1       \* AssignAgent commands in a run

AgentIds == 1..MaxAgents
Roles == {"developer"}
TaskLists == { <<"task">> }

\* assign_agent as it would be if an id already in the roster kept its entry
AssignAgentApply_KeepExisting(roster, agent_id, role, tasks) ==
    IF agent_id \in DOMAIN roster THEN roster
    ELSE MapInsert(roster, agent_id,
                   [role |-> role, status |-> "Assigned", assigned_tasks |-> tasks])

\* resume_all_agents as it would be if it activated every agent
ResumeAllAgents_Everyone(roster) ==
    [a \in DOMAIN roster |-> [roster[a] EXCEPT !.status = "Active"]]

\* the roster after AgentManager::assign_agent
AssignAgentApply(roster, agent_id, role, tasks) ==
    MapInsert(roster, agent_id,
              [role |-> role, status |-> "Assigned", assigned_tasks |-> tasks])

\* what AgentManager::remove_agent returns: the role, or "None"
RemoveAgentResult(roster, agent_id) ==
    IF agent_id \in DOMAIN roster THEN roster[agent_id].role ELSE "None"

\* the roster after AgentManager::remove_agent
RemoveAgentApply(roster, agent_id) == MapRemove(roster, agent_id)

\* the roster after AgentManager::pause_all_agents
PauseAllAgents(roster) ==
    [a \in DOMAIN roster |-> [roster[a] EXCEPT !.status = "Paused"]]

\* the roster after AgentManager::resume_all_agents
ResumeAllAgents(roster) ==
    [a \in DOMAIN roster |->
        IF roster[a].status = "Paused" THEN [roster[a] EXCEPT !.status = "Active"]
        ELSE roster[a]]

\* the roster after AgentManager::finalize_all_agents
FinalizeAllAgents(roster) ==
    [a \in DOMAIN roster |-> [roster[a] EXCEPT !.status = "Completed"]]

\* bound on the agent ids given to an AgentManager called directly
MaxRoster == 2

\* the agent ids callers pass
RosterIds == 1..MaxRoster

\* the roles callers pass
RolesGiven == {"developer", "tester"}

\* a direct call of AgentManager::assign_agent
AssignAgentCall(agent_id, role, tasks) ==
    /\ agents' = AssignAgentApply(agents, agent_id, role, tasks)
    /\ am_last' = [op |-> "assign_agent", agent_id |-> agent_id, role |-> role,
                   tasks |-> tasks, before |-> agents, result |-> "Ok"]
    /\ UNCHANGED not_am

\* a direct call of AgentManager::remove_agent
RemoveAgentCall(agent_id) ==
    /\ agents' = RemoveAgentApply(agents, agent_id)
    /\ am_last' = [op |-> "remove_agent", agent_id |-> agent_id,
                   before |-> agents,
                   result |-> RemoveAgentResult(agents, agent_id)]
    /\ UNCHANGED not_am

\* a direct call of AgentManager::pause_all_agents
PauseAllAgentsCall ==
    /\ agents' = PauseAllAgents(agents)
    /\ am_last' = [op |-> "pause_all_agents", before |-> agents, result |-> "Ok"]
    /\ UNCHANGED not_am

\* a direct call of AgentManager::resume_all_agents
ResumeAllAgentsCall ==
    /\ agents' = ResumeAllAgents(agents)
    /\ am_last' = [op |-> "resume_all_agents", before |-> agents, result |-> "Ok"]
    /\ UNCHANGED not_am

\* a direct call of AgentManager::finalize_all_agents
FinalizeAllAgentsCall ==
    /\ agents' = FinalizeAllAgents(agents)
    /\ am_last' = [op |-> "finalize_all_agents", before |-> agents, result |-> "Ok"]
    /\ UNCHANGED not_am

\* AgentManager::new
AMInit == am_last = [op |-> "none", before |-> << >>, result |-> "Ok"]

AMNext ==
    \/ \E id \in RosterIds, r \in RolesGiven, t \in TaskLists :
          AssignAgentCall(id, r, t)
    \/ \E id \in RosterIds : RemoveAgentCall(id)
    \/ PauseAllAgentsCall
    \/ ResumeAllAgentsCall
    \/ FinalizeAllAgentsCall

----------------------------------------------------------------------------
(* WorkflowCoordinator *)

MaxEscalations == 1   \* EscalateIssue commands in a run
MaxCompletions == 1   \* CompleteWorkflow commands in a run

EscalationTypes == {"TechnicalBlocker"}
EscalationSeverities == {"Critical"}
\* phases named in ApprovePhaseTransition commands
ApprovalPhases == {"Requirements"}

\* WorkflowCoordinator::new, state
CoordinatorStateNew ==
    [ status              |-> "Initializing",
      current_phase       |-> "Planning",
      performance_metrics |-> [ workflows_managed           |-> 0,
                                escalation_rate             |-> 0,
                                successful_decisions        |-> 0,
                                phase_transition_efficiency |-> 0 ],
      active_escalations  |-> << >>,
      team_composition    |-> [ total_agents  |-> 0,
                                active_agents |-> 0,
                                agent_roles   |-> << >> ] ]

Handled(cmd, result, events) == [cmd |-> cmd, result |-> result, events |-> events]

\* WorkflowCoordinator::start
CoordinatorStart ==
    /\ coord_state' = [coord_state EXCEPT !.status = "Coordinating"]
    /\ coord_loop' = "running"
    /\ coord_last' = IF coord_loop = "not_started"
                     THEN Handled(<<"start">>, "Ok", << [event |-> "WorkflowStarted"] >>)
                     ELSE Handled(<<"start">>, "Err", << >>)
    /\ UNCHANGED <<agents, pm_vars, qa_vars, not_coord>>

\* handle_command(StartWorkflow) -> start_workflow_execution, within
\* history_limit phase records
StartWorkflowWithin(history_limit) ==
    /\ coord_loop = "running"
    /\ Len(pm_state.phase_history) < history_limit
    /\ pm_state' = InitializePhaseApply(pm_state, "Planning")
    /\ coord_state' = [coord_state EXCEPT !.status = "Planning",
                                          !.current_phase = "Planning"]
    /\ coord_last' = Handled(<<"StartWorkflow">>, "Ok", << >>)
    /\ UNCHANGED <<pm_last, agents, coord_loop, qa_vars, not_coord>>

StartWorkflow == StartWorkflowWithin(MaxHistory)

\* transition_phase: where the handler returns
TransitionOutcome(pm, standards, v, current_phase, target_phase) ==
    IF ~ CanTransitionTo(pm, target_phase) THEN "requirements_not_met"
    ELSE IF ~ ValidatePhaseCompletionPassed(standards, v, current_phase)
    THEN "quality_gate_failed"
    ELSE "transitioned"

\* transition_phase calling transition_to_phase before its checks
PhaseStateAfter_Unguarded(outcome, pm, target_phase) ==
    TransitionToPhaseApply(pm, target_phase)

\* transition_phase: the PhaseState it leaves
PhaseStateAfter(outcome, pm, target_phase) ==
    IF outcome = "transitioned" THEN TransitionToPhaseApply(pm, target_phase) ELSE pm

\* transition_phase: the QualityState it leaves
QualityStateAfter(outcome, qa, v, current_phase) ==
    IF outcome = "requirements_not_met" THEN qa
    ELSE ValidatePhaseCompletionApply(qa, v, current_phase)

\* transition_phase: the CoordinatorState it leaves
CoordinatorStateAfter(outcome, state, target_phase) ==
    IF outcome = "transitioned"
    THEN [state EXCEPT !.current_phase = target_phase,
                       !.performance_metrics.phase_transition_efficiency = @ + 1]
    ELSE state

\* transition_phase as it would be if it announced the gate before the
\* transition
TransitionEvents_GateFirst(outcome, current_phase, target_phase, qa_after) ==
    CASE outcome = "requirements_not_met" -> << >>
      [] outcome = "quality_gate_failed" ->
            << [event |-> "QualityGateFailed", phase |-> current_phase,
                issues |-> GetCurrentIssues(qa_after)] >>
      [] outcome = "transitioned" ->
            << [event |-> "QualityGatePassed", phase |-> target_phase,
                quality_score |-> qa_after.current_score],
               [event |-> "PhaseTransitioned", from_phase |-> current_phase,
                to_phase |-> target_phase, approval_granted |-> TRUE] >>

\* transition_phase: the events it sends
TransitionEvents(outcome, current_phase, target_phase, qa_after) ==
    CASE outcome = "requirements_not_met" -> << >>
      [] outcome = "quality_gate_failed" ->
            << [event |-> "QualityGateFailed", phase |-> current_phase,
                issues |-> GetCurrentIssues(qa_after)] >>
      [] outcome = "transitioned" ->
            << [event |-> "PhaseTransitioned", from_phase |-> current_phase,
                to_phase |-> target_phase, approval_granted |-> TRUE],
               [event |-> "QualityGatePassed", phase |-> target_phase,
                quality_score |-> qa_after.current_score] >>

\* handle_command(TransitionPhase) -> transition_phase, within history_limit
\* phase records and validation_limit quality gates
TransitionPhaseWithin(history_limit, validation_limit, target_phase, approval_required) ==
    LET current_phase == coord_state.current_phase
        outcome == TransitionOutcome(pm_state, qa_standards, validators,
                                     current_phase, target_phase)
        qa_after == QualityStateAfter(outcome, qa_state, validators, current_phase)
    IN
    /\ coord_loop = "running"
    /\ outcome # "requirements_not_met" =>
          /\ Len(pm_state.phase_history) < history_limit
          /\ qa_state.metrics.phases_validated < validation_limit
    /\ pm_state' = PhaseStateAfter(outcome, pm_state, target_phase)
    /\ qa_state' = qa_after
    /\ qa_runs' = IF outcome = "requirements_not_met" THEN qa_runs
                  ELSE qa_runs \cup {RunRecord(qa_state, qa_after, qa_standards,
                                               validators, current_phase)}
    /\ coord_state' = CoordinatorStateAfter(outcome, coord_state, target_phase)
    /\ coord_last' = Handled(<<"TransitionPhase", target_phase>>,
                             IF outcome = "transitioned" THEN "Ok" ELSE "Err",
                             TransitionEvents(outcome, current_phase, target_phase, qa_after))
    /\ UNCHANGED <<pm_last, qa_standards, validators, qa_last, agents, coord_loop, not_coord>>

TransitionPhase(target_phase, approval_required) ==
    TransitionPhaseWithin(MaxHistory, MaxValidations, target_phase, approval_required)

\* HashMap entry(role).or_insert(0) += 1
RoleCountInc(agent_roles, role) ==
    MapInsert(agent_roles, role,
              IF role \in DOMAIN agent_roles THEN agent_roles[role] + 1 ELSE 1)

\* remove_agent: the count of the removed agent's role, saturating_sub(1)
RoleCountDec(agent_roles, role) ==
    IF role \in DOMAIN agent_roles
    THEN [agent_roles EXCEPT ![role] = SaturatingDec(@)]
    ELSE agent_roles

\* handle_command(AssignAgent) -> assign_agent, within limit assignments
AssignAgentWithin(limit, agent_id, role, tasks) ==
    /\ coord_loop = "running"
    /\ coord_state.team_composition.total_agents < limit
    /\ agents' = AssignAgentApply(agents, agent_id, role, tasks)
    /\ coord_state' = [coord_state EXCEPT
                          !.team_composition.total_agents = @ + 1,
                          !.team_composition.active_agents = @ + 1,
                          !.team_composition.agent_roles = RoleCountInc(@, role)]
    /\ coord_last' = Handled(<<"AssignAgent", agent_id>>, "Ok",
                             << [event |-> "AgentAssigned", agent_id |-> agent_id,
                                 role |-> role] >>)
    /\ UNCHANGED <<coord_loop, pm_vars, qa_vars, not_coord>>

AssignAgent(agent_id, role, tasks) == AssignAgentWithin(MaxAssigns, agent_id, role, tasks)

\* handle_command(RemoveAgent) -> remove_agent
RemoveAgent(agent_id) ==
    LET agent_role == RemoveAgentResult(agents, agent_id) IN
    /\ coord_loop = "running"
    /\ agents' = RemoveAgentApply(agents, agent_id)
    /\ coord_state' = [coord_state EXCEPT
                          !.team_composition.active_agents = SaturatingDec(@),
                          !.team_composition.agent_roles =
                              IF agent_role = "None" THEN @ ELSE RoleCountDec(@, agent_role)]
    /\ coord_last' = Handled(<<"RemoveAgent", agent_id>>, "Ok", << >>)
    /\ UNCHANGED <<coord_loop, pm_vars, qa_vars, not_coord>>

\* handle_command(EscalateIssue) -> escalate_issue
EscalateIssue(issue_type, severity) ==
    /\ coord_loop = "running"
    /\ Len(coord_state.active_escalations) < MaxEscalations
    /\ coord_state' = [coord_state EXCEPT
                          !.active_escalations =
                              Append(@, [ issue_type |-> issue_type, severity |-> severity,
                                          escalated_to |-> "None", resolved |-> FALSE ]),
                          !.performance_metrics.escalation_rate = @ + 1]
    /\ coord_last' = Handled(<<"EscalateIssue">>, "Ok",
                             << [event |-> "EscalationCreated", severity |-> severity] >>)
    /\ UNCHANGED <<agents, coord_loop, pm_vars, qa_vars, not_coord>>

\* handle_command(ApprovePhaseTransition) -> approve_phase_transition
ApprovePhaseTransition(phase, approved) ==
    /\ coord_loop = "running"
    /\ coord_last' = Handled(<<"ApprovePhaseTransition">>, "Ok", << >>)
    /\ UNCHANGED <<agents, coord_state, coord_loop, pm_vars, qa_vars, not_coord>>

\* handle_command(UpdateQualityStandards) -> QualityAssurance::update_standards
UpdateQualityStandards(standards) ==
    /\ coord_loop = "running"
    /\ qa_standards' = standards
    /\ coord_last' = Handled(<<"UpdateQualityStandards">>, "Ok", << >>)
    /\ UNCHANGED <<agents, coord_state, coord_loop, pm_vars, qa_state, validators, qa_last, qa_runs,
                   not_coord>>

\* handle_command(GenerateStatusReport) -> generate_status_report
GenerateStatusReport ==
    /\ coord_loop = "running"
    /\ coord_last' = Handled(<<"GenerateStatusReport">>, "Ok", << >>)
    /\ UNCHANGED <<agents, coord_state, coord_loop, pm_vars, qa_vars, not_coord>>

\* handle_command(PauseWorkflow) -> pause_workflow
CoordPauseWorkflow ==
    /\ coord_loop = "running"
    /\ agents' = PauseAllAgents(agents)
    /\ coord_state' = [coord_state EXCEPT !.status = "Monitoring"]
    /\ coord_last' = Handled(<<"PauseWorkflow">>, "Ok", << >>)
    /\ UNCHANGED <<coord_loop, pm_vars, qa_vars, not_coord>>

\* handle_command(ResumeWorkflow) -> resume_workflow
CoordResumeWorkflow ==
    /\ coord_loop = "running"
    /\ agents' = ResumeAllAgents(agents)
    /\ coord_state' = [coord_state EXCEPT !.status = "Coordinating"]
    /\ coord_last' = Handled(<<"ResumeWorkflow">>, "Ok", << >>)
    /\ UNCHANGED <<coord_loop, pm_vars, qa_vars, not_coord>>

\* handle_command(CompleteWorkflow) -> complete_workflow
CompleteWorkflow(success) ==
    /\ coord_loop = "running"
    /\ coord_state.performance_metrics.workflows_managed < MaxCompletions
    /\ agents' = FinalizeAllAgents(agents)
    /\ coord_state' = [coord_state EXCEPT
                          !.status = IF success THEN "Completed" ELSE "Failed",
                          !.performance_metrics.workflows_managed = @ + 1,
                          !.performance_metrics.successful_decisions =
                              IF success THEN @ + 1 ELSE @]
    /\ coord_last' = Handled(<<"CompleteWorkflow">>, "Ok",
                             << [event |-> "WorkflowCompleted", success |-> success] >>)
    /\ UNCHANGED <<coord_loop, pm_vars, qa_vars, not_coord>>

CoordInit ==
    /\ agents = << >>
    /\ coord_state = CoordinatorStateNew
    /\ coord_loop = "not_started"
    /\ coord_last = Handled(<<"none">>, "Ok", << >>)

CoordNext ==
    \/ CoordinatorStart
    \/ StartWorkflow
    \/ \E p \in WorkflowPhase, a \in BOOLEAN : TransitionPhase(p, a)
    \/ \E id \in AgentIds, r \in Roles, t \in TaskLists : AssignAgent(id, r, t)
    \/ \E id \in AgentIds : RemoveAgent(id)
    \/ \E t \in EscalationTypes, s \in EscalationSeverities : EscalateIssue(t, s)
    \/ \E p \in ApprovalPhases, a \in BOOLEAN : ApprovePhaseTransition(p, a)
    \/ \E m \in {MinimumScoreDefault, 101} : UpdateQualityStandards([minimum_score |-> m])
    \/ GenerateStatusReport
    \/ CoordPauseWorkflow
    \/ CoordResumeWorkflow
    \/ \E s \in BOOLEAN : CompleteWorkflow(s)

----------------------------------------------------------------------------
(* WorkflowManager *)

MaxManaged == 2       \* workflows created in a run
MaxDeps == 2          \* length of a dependencies / dependents list
MaxPhaseRecords == 2  \* length of a workflow's phase_history

\* ids of created workflows (Uuid::new_v4, in order of creation)
ManagedIds == 1..MaxManaged
\* a Uuid that no create_workflow returned
UnknownId == 0
\* workflow types named in create_workflow: one registered, one not
RegisteredTypes == {"hivemind", "swarm", "deep-research", "code-review", "refactor",
                    "data-pipeline", "custom-prompt"}
TypesGiven == {"swarm", "no-such-type"}
\* statuses given to transition_workflow_phase
StatusesGiven == {"Planning", "Completed"}
\* the order in which get_next_workflow_by_priority visits the tiers
PriorityOrder == <<"Critical", "High", "Medium", "Low">>

\* the ManagedWorkflow that create_workflow inserts
NewManagedWorkflow(workflow_type, priority) ==
    [ status        |-> "Queued",
      priority      |-> priority,
      workflow_type |-> workflow_type,
      phase_history |-> << [from_phase |-> "None", to_phase |-> "Queued"] >>,
      dependencies  |-> << >>,
      dependents    |-> << >> ]

\* workflow_queue.entry(priority).or_insert_with(Vec::new).push(id)
QueuePush(queue, priority, id) ==
    MapInsert(queue, priority,
              IF priority \in DOMAIN queue THEN Append(queue[priority], id) ELSE <<id>>)

\* Vec::contains
Contains(seq, x) == \E i \in 1..Len(seq) : seq[i] = x

\* if !v.contains(&x) { v.push(x) }
PushIfAbsent(seq, x) == IF Contains(seq, x) THEN seq ELSE Append(seq, x)

\* Vec::retain(|&id| id != x)
Without(seq, x) == SelectSeq(seq, LAMBDA y : y # x)

\* WorkflowManager::create_workflow
WMCreateWorkflow(workflow_type, priority) ==
    LET workflow_id == Cardinality(DOMAIN wm_workflows) + 1 IN
    /\ Cardinality(DOMAIN wm_workflows) < MaxManaged
    /\ IF workflow_type \notin RegisteredTypes
       THEN /\ wm_last' = [op |-> "create_workflow", result |-> "Err", events |-> << >>]
            /\ UNCHANGED <<wm_workflows, wm_queue>>
       ELSE /\ wm_workflows' = MapInsert(wm_workflows, workflow_id,
                                         NewManagedWorkflow(workflow_type, priority))
            /\ wm_queue' = QueuePush(wm_queue, priority, workflow_id)
            /\ wm_last' = [op |-> "create_workflow", result |-> "Ok",
                           events |-> << [event |-> "WorkflowCreated",
                                          workflow_id |-> workflow_id] >>]
    /\ UNCHANGED not_wm

\* the registry after transition_workflow_phase
TransitionWorkflowPhaseApply(registry, workflow_id, new_phase) ==
    IF workflow_id \in DOMAIN registry
    THEN [registry EXCEPT
            ![workflow_id].phase_history =
                Append(@, [from_phase |-> registry[workflow_id].status,
                           to_phase |-> new_phase]),
            ![workflow_id].status = new_phase]
    ELSE registry

\* WorkflowManager::transition_workflow_phase
TransitionWorkflowPhase(workflow_id, new_phase) ==
    /\ workflow_id \in DOMAIN wm_workflows =>
          Len(wm_workflows[workflow_id].phase_history) < MaxPhaseRecords
    /\ wm_workflows' = TransitionWorkflowPhaseApply(wm_workflows, workflow_id, new_phase)
    /\ wm_last' = [op |-> "transition_workflow_phase", result |-> "Ok",
                   events |-> IF workflow_id \in DOMAIN wm_workflows
                              THEN << [event |-> "WorkflowStatusChanged",
                                       workflow_id |-> workflow_id,
                                       old_status |-> wm_workflows[workflow_id].status,
                                       new_status |-> new_phase] >>
                              ELSE << >>]
    /\ UNCHANGED <<wm_queue, not_wm>>

\* the registry after add_dependency
AddDependencyApply(registry, workflow_id, depends_on) ==
    LET first == IF workflow_id \in DOMAIN registry
                 THEN [registry EXCEPT ![workflow_id].dependencies =
                                            PushIfAbsent(@, depends_on)]
                 ELSE registry
    IN  IF depends_on \in DOMAIN first
        THEN [first EXCEPT ![depends_on].dependents = PushIfAbsent(@, workflow_id)]
        ELSE first

\* WorkflowManager::add_dependency
AddDependency(workflow_id, depends_on) ==
    /\ workflow_id \in DOMAIN wm_workflows =>
          Len(wm_workflows[workflow_id].dependencies) < MaxDeps
    /\ depends_on \in DOMAIN wm_workflows =>
          Len(wm_workflows[depends_on].dependents) < MaxDeps
    /\ wm_workflows' = AddDependencyApply(wm_workflows, workflow_id, depends_on)
    /\ wm_last' = [op |-> "add_dependency", result |-> "Ok", events |-> << >>]
    /\ UNCHANGED <<wm_queue, not_wm>>

\* remove_dependency as it would be if it left the dependents list alone
RemoveDependencyApply_OneSided(registry, workflow_id, depends_on) ==
    IF workflow_id \in DOMAIN registry
    THEN [registry EXCEPT ![workflow_id].dependencies = Without(@, depends_on)]
    ELSE registry

\* the registry after remove_dependency
RemoveDependencyApply(registry, workflow_id, depends_on) ==
    LET first == IF workflow_id \in DOMAIN registry
                 THEN [registry EXCEPT ![workflow_id].dependencies = Without(@, depends_on)]
                 ELSE registry
    IN  IF depends_on \in DOMAIN first
        THEN [first EXCEPT ![depends_on].dependents = Without(@, workflow_id)]
        ELSE first

\* WorkflowManager::remove_dependency
RemoveDependency(workflow_id, depends_on) ==
    /\ wm_workflows' = RemoveDependencyApply(wm_workflows, workflow_id, depends_on)
    /\ wm_last' = [op |-> "remove_dependency", result |-> "Ok", events |-> << >>]
    /\ UNCHANGED <<wm_queue, not_wm>>

\* the closure both readiness tests apply to a dependency list: a dependency
\* that is not in the registry counts as completed
DependenciesSatisfied(registry, dependencies) ==
    \A i \in 1..Len(dependencies) :
        IF dependencies[i] \in DOMAIN registry
        THEN registry[dependencies[i]].status = "Completed"
        ELSE TRUE

\* WorkflowManager::get_ready_workflows (a Vec in map order; here the set)
GetReadyWorkflows(registry) ==
    { id \in DOMAIN registry :
        /\ registry[id].status = "Queued"
        /\ DependenciesSatisfied(registry, registry[id].dependencies) }

\* get_next_workflow_by_priority, the inner loop over one tier's queue:
\* the first id that passes, as an Option
FirstReadyOf(registry, ids) ==
    LET passing == { i \in 1..Len(ids) :
                        /\ ids[i] \in DOMAIN registry
                        /\ registry[ids[i]].status = "Queued"
                        /\ DependenciesSatisfied(registry, registry[ids[i]].dependencies) }
    IN  IF passing = {} THEN << >>
        ELSE << ids[CHOOSE i \in passing : \A j \in passing : i <= j] >>

\* WorkflowManager::get_next_workflow_by_priority, as an Option
GetNextWorkflowByPriority(registry, queue) ==
    LET found == { k \in 1..Len(PriorityOrder) :
                      /\ PriorityOrder[k] \in DOMAIN queue
                      /\ FirstReadyOf(registry, queue[PriorityOrder[k]]) # << >> }
    IN  IF found = {} THEN << >>
        ELSE FirstReadyOf(registry,
                          queue[PriorityOrder[CHOOSE k \in found : \A j \in found : k <= j]])

\* a call of get_ready_workflows
GetReadyWorkflowsCall ==
    /\ wm_last' = [op |-> "get_ready_workflows",
                   result |-> GetReadyWorkflows(wm_workflows), events |-> << >>]
    /\ UNCHANGED <<wm_workflows, wm_queue, not_wm>>

\* a call of get_next_workflow_by_priority
GetNextWorkflowByPriorityCall ==
    /\ wm_last' = [op |-> "get_next_workflow_by_priority",
                   result |-> GetNextWorkflowByPriority(wm_workflows, wm_queue),
                   events |-> << >>]
    /\ UNCHANGED <<wm_workflows, wm_queue, not_wm>>

\* ids a caller can name: those create_workflow returned, and an unknown one
IdsGiven(registry) == (DOMAIN registry) \cup {UnknownId}

\* WorkflowManager::new
WMInit ==
    /\ wm_workflows = << >>
    /\ wm_queue = << >>
    /\ wm_last = [op |-> "none", result |-> "Ok", events |-> << >>]

WMNext ==
    \/ \E t \in TypesGiven, p \in PrioritiesGiven : WMCreateWorkflow(t, p)
    \/ \E w \in IdsGiven(wm_workflows), st \in StatusesGiven :
          TransitionWorkflowPhase(w, st)
    \/ \E w, d \in IdsGiven(wm_workflows) : AddDependency(w, d)
    \/ \E w, d \in IdsGiven(wm_workflows) : RemoveDependency(w, d)
    \/ GetReadyWorkflowsCall
    \/ GetNextWorkflowByPriorityCall

----------------------------------------------------------------------------
(* LeadershipHierarchy: master-orchestrator/src/leadership.rs *)

\* bound on create_workflow_coordinator calls
MaxCoordinators == 1

\* bound on LeadershipHierarchy::initialize calls
MaxInitializations == 1

\* the managers create_core_specialists makes on each call
NumCoreSpecialists == 7

\* LeadershipHierarchy.master_id, a fresh Uuid
MasterId == <<"master", 1>>

\* the Uuids create_workflow_coordinator can hand out
CoordinatorIds == {<<"coordinator", n>> : n \in 1..MaxCoordinators}

\* the Uuids create_core_specialists can hand out
SpecialistIds ==
    {<<"specialist", n>> : n \in 1..(MaxInitializations * NumCoreSpecialists)}

\* a Uuid the hierarchy never handed out
StrangerId == <<"stranger", 1>>

\* enum DecisionType
DecisionTypes ==
    {"CrossWorkflowPriorities", "SystemArchitecture", "ResourceAllocation",
     "BudgetPlanning", "StrategicDirection",
     "WorkflowExecution", "TeamComposition", "QualityStandards",
     "TimelineManagement", "AgentAssignment",
     "TechnicalArchitecture", "ProcessImplementation",
     "QualityAssuranceStandards", "SecurityCompliance", "DeploymentStrategy",
     "EmergencyEscalation", "WorkflowShutdown", "ResourceReallocation"}

\* the authority create_workflow_coordinator grants
CoordinatorGrant ==
    {"WorkflowExecution", "TeamComposition", "QualityStandards",
     "TimelineManagement", "AgentAssignment"}

\* DecisionMatrix::new_with_defaults
DecisionMatrixNewWithDefaults ==
    [master_authority |->
         {"CrossWorkflowPriorities", "SystemArchitecture", "ResourceAllocation",
          "BudgetPlanning", "StrategicDirection", "EmergencyEscalation"},
     coordinator_authority |-> << >>,
     specialist_authority |-> << >>,
     escalation_paths |->
         [t \in {"WorkflowExecution", "CrossWorkflowPriorities"} |-> << >>]]

\* LeadershipHierarchy::new
LeadershipHierarchyNew ==
    [initializations |-> 0,
     coordinators |-> << >>,
     specialists |-> << >>,
     decision_matrix |-> DecisionMatrixNewWithDefaults]

\* the SpecializedManager records create_core_specialists inserts on its
\* nth call
CoreSpecialists(specialists, nth) ==
    LET fresh == {<<"specialist", n>> :
                     n \in (nth * NumCoreSpecialists + 1)..
                           ((nth + 1) * NumCoreSpecialists)}
    IN  [id \in DOMAIN specialists \cup fresh |->
            IF id \in fresh
            THEN [status |-> "Available", assigned_workflows |-> << >>]
            ELSE specialists[id]]

\* LeadershipHierarchy::initialize: the matrix is built anew and the core
\* specialists are created
Initialize ==
    /\ lh_state.initializations < MaxInitializations
    /\ lh_state' =
           [lh_state EXCEPT
               !.initializations = @ + 1,
               !.decision_matrix = DecisionMatrixNewWithDefaults,
               !.specialists = CoreSpecialists(@, lh_state.initializations)]
    /\ lh_last' = [op |-> "initialize", result |-> "Ok"]
    /\ UNCHANGED not_lh

\* the Uuid create_workflow_coordinator draws
FreshCoordinatorId(state) ==
    CHOOSE id \in CoordinatorIds : id \notin DOMAIN state.coordinators

\* LeadershipHierarchy::create_workflow_coordinator, the state it leaves
CreateWorkflowCoordinatorApply(state, workflow_id) ==
    LET id == FreshCoordinatorId(state)
    IN  [state EXCEPT
            !.coordinators =
                MapInsert(@, id, [workflow_id |-> workflow_id,
                                  status |-> "Initializing",
                                  authority_level |-> "High"]),
            !.decision_matrix.coordinator_authority =
                MapInsert(@, id, CoordinatorGrant)]

\* LeadershipHierarchy::create_workflow_coordinator
CreateWorkflowCoordinator(workflow_id) ==
    /\ DOMAIN lh_state.coordinators # CoordinatorIds
    /\ lh_state' = CreateWorkflowCoordinatorApply(lh_state, workflow_id)
    /\ lh_last' = [op |-> "create_workflow_coordinator",
                   workflow_id |-> workflow_id,
                   result |-> FreshCoordinatorId(lh_state)]
    /\ UNCHANGED not_lh

\* LeadershipHierarchy::assign_specialist_to_workflow, the state it leaves
AssignSpecialistToWorkflowApply(state, specialist_id, workflow_id) ==
    IF /\ specialist_id \in DOMAIN state.specialists
       /\ ~ Contains(state.specialists[specialist_id].assigned_workflows,
                     workflow_id)
    THEN [state EXCEPT
             !.specialists[specialist_id] =
                 [status |-> "Consulting",
                  assigned_workflows |-> Append(@.assigned_workflows, workflow_id)]]
    ELSE state

\* LeadershipHierarchy::assign_specialist_to_workflow
AssignSpecialistToWorkflow(specialist_id, workflow_id) ==
    /\ lh_state' =
           AssignSpecialistToWorkflowApply(lh_state, specialist_id, workflow_id)
    /\ lh_last' = [op |-> "assign_specialist_to_workflow",
                   actor |-> specialist_id,
                   workflow_id |-> workflow_id,
                   result |-> "Ok"]
    /\ UNCHANGED not_lh

\* can_make_decision as it would be if an actor without an entry of its own
\* inherited the master's authority
CanMakeDecision_Inheriting(state, actor_id, decision_type) ==
    LET matrix == state.decision_matrix
    IN  IF actor_id \in DOMAIN matrix.coordinator_authority
        THEN decision_type \in matrix.coordinator_authority[actor_id]
        ELSE decision_type \in matrix.master_authority

\* escalate_decision as it would be if the default chain went through the
\* requesting actor
EscalateDecision_ThroughRequester(state, decision_type, requesting_actor) ==
    LET matrix == state.decision_matrix
    IN  IF decision_type \in DOMAIN matrix.escalation_paths
        THEN matrix.escalation_paths[decision_type]
        ELSE <<requesting_actor, MasterId>>

\* LeadershipHierarchy::can_make_decision
CanMakeDecision(state, actor_id, decision_type) ==
    LET matrix == state.decision_matrix
    IN  IF actor_id = MasterId
        THEN decision_type \in matrix.master_authority
        ELSE IF actor_id \in DOMAIN matrix.coordinator_authority
        THEN decision_type \in matrix.coordinator_authority[actor_id]
        ELSE IF actor_id \in DOMAIN matrix.specialist_authority
        THEN decision_type \in matrix.specialist_authority[actor_id]
        ELSE FALSE

\* LeadershipHierarchy::escalate_decision
EscalateDecision(state, decision_type, requesting_actor) ==
    LET matrix == state.decision_matrix
    IN  IF decision_type \in DOMAIN matrix.escalation_paths
        THEN matrix.escalation_paths[decision_type]
        ELSE <<MasterId>>

\* a call of can_make_decision
CanMakeDecisionCall(actor_id, decision_type) ==
    /\ lh_last' = [op |-> "can_make_decision",
                   actor |-> actor_id,
                   decision_type |-> decision_type,
                   result |-> CanMakeDecision(lh_state, actor_id, decision_type)]
    /\ UNCHANGED <<lh_state, not_lh>>

\* a call of escalate_decision
EscalateDecisionCall(decision_type, requesting_actor) ==
    /\ lh_last' = [op |-> "escalate_decision",
                   actor |-> requesting_actor,
                   decision_type |-> decision_type,
                   result |-> EscalateDecision(lh_state, decision_type,
                                               requesting_actor)]
    /\ UNCHANGED <<lh_state, not_lh>>

\* the CoordinatorStatus values callers pass to update_coordinator_status
CoordinatorStatusesGiven == {"Active"}

\* the ManagerStatus values callers pass to update_specialist_status
ManagerStatusesGiven == {"Reviewing"}

\* LeadershipHierarchy::update_coordinator_status
UpdateCoordinatorStatus(coordinator_id, status) ==
    /\ lh_state' =
           IF coordinator_id \in DOMAIN lh_state.coordinators
           THEN [lh_state EXCEPT !.coordinators[coordinator_id].status = status]
           ELSE lh_state
    /\ lh_last' = [op |-> "update_coordinator_status",
                   actor |-> coordinator_id,
                   result |-> "Ok"]
    /\ UNCHANGED not_lh

\* LeadershipHierarchy::update_specialist_status
UpdateSpecialistStatus(specialist_id, status) ==
    /\ lh_state' =
           IF specialist_id \in DOMAIN lh_state.specialists
           THEN [lh_state EXCEPT !.specialists[specialist_id].status = status]
           ELSE lh_state
    /\ lh_last' = [op |-> "update_specialist_status",
                   actor |-> specialist_id,
                   result |-> "Ok"]
    /\ UNCHANGED not_lh

\* the workflow ids callers pass
LeadershipWorkflowIds == {"workflow"}

\* the specialist ids callers pass: one the hierarchy made, one it did not
SpecialistsGiven == {<<"specialist", 1>>, StrangerId}

\* the actor ids callers pass: the master, every coordinator id, a
\* specialist, a stranger
ActorsGiven == {MasterId} \cup CoordinatorIds \cup SpecialistsGiven

LHInit ==
    /\ lh_state = LeadershipHierarchyNew
    /\ lh_last = [op |-> "none", result |-> "Ok"]

LHNext ==
    \/ Initialize
    \/ \E w \in LeadershipWorkflowIds : CreateWorkflowCoordinator(w)
    \/ \E s \in SpecialistsGiven, w \in LeadershipWorkflowIds :
          AssignSpecialistToWorkflow(s, w)
    \/ \E a \in ActorsGiven, t \in DecisionTypes : CanMakeDecisionCall(a, t)
    \/ \E t \in DecisionTypes, a \in ActorsGiven : EscalateDecisionCall(t, a)
    \/ \E c \in CoordinatorIds, st \in CoordinatorStatusesGiven :
          UpdateCoordinatorStatus(c, st)
    \/ \E s \in SpecialistsGiven, st \in ManagerStatusesGiven :
          UpdateSpecialistStatus(s, st)

----------------------------------------------------------------------------
(* CommunicationManager: workflow-coordinator/src/communication.rs *)

\* bound on the records of communication_log
MaxMessages == 2

\* bound on the acknowledgements counted
MaxAcknowledged == 3

\* bound on the entries of stakeholders
MaxStakeholders == 1

\* bound on the entries of scheduled_reports
MaxReports == 1

\* the message ids callers pass to acknowledge_message; an id not sent yet
\* is one the log does not hold
MessageIds == 1..MaxMessages

\* the Stakeholder values callers pass to add_stakeholder
StakeholdersGiven ==
    {[id |-> <<"given", 1>>, role |-> "ExternalClient",
      quality_issues |-> FALSE, escalations |-> TRUE],
     [id |-> <<"given", 2>>, role |-> "MasterOrchestrator",
      quality_issues |-> TRUE, escalations |-> FALSE]}

\* CommunicationManager::new
CommunicationStateNew ==
    [stakeholders |-> << >>,
     communication_log |-> << >>,
     scheduled_reports |-> << >>,
     metrics |-> [messages_sent |-> 0, messages_acknowledged |-> 0,
                  reports_generated |-> 0, escalations_communicated |-> 0]]

\* the stakeholder initialize_default_stakeholders inserts, under a fresh Uuid
DefaultStakeholder(state) ==
    [id |-> <<"default", Cardinality(DOMAIN state.stakeholders) + 1>>,
     role |-> "MasterOrchestrator",
     quality_issues |-> TRUE, escalations |-> TRUE]

\* CommunicationManager::start -> initialize_default_stakeholders
CommunicationStart ==
    /\ Cardinality(DOMAIN cm_state.stakeholders) < MaxStakeholders
    /\ cm_state' = [cm_state EXCEPT
                       !.stakeholders =
                           MapInsert(@, DefaultStakeholder(cm_state).id,
                                     DefaultStakeholder(cm_state))]
    /\ cm_last' = [op |-> "start", result |-> <<"Ok">>]
    /\ UNCHANGED not_cm

\* the Uuid send_message draws
FreshMessageId(state) == Len(state.communication_log) + 1

\* CommunicationManager::send_message, the state it leaves; to_id is << >>
\* for a broadcast
SendMessageApply(state, to_id, message_type) ==
    [state EXCEPT
        !.communication_log =
            Append(@, [id |-> FreshMessageId(state), to_id |-> to_id,
                       channel |-> "TmuxMessage",
                       message_type |-> message_type,
                       acknowledged |-> FALSE]),
        !.metrics.messages_sent = @ + 1]

\* the state after send_message to each recipient in turn
RECURSIVE SendToEach(_, _, _)
SendToEach(state, recipients, message_type) ==
    IF recipients = << >> THEN state
    ELSE SendToEach(SendMessageApply(state, <<Head(recipients)>>, message_type),
                    Tail(recipients), message_type)

\* the orders in which a HashMap can yield the ids of a set
IterationOrders(ids) ==
    {order \in [1..Cardinality(ids) -> ids] :
        \A id \in ids : \E i \in 1..Cardinality(ids) : order[i] = id}

\* CommunicationManager::send_message
SendMessage(to_id, message_type) ==
    /\ Len(cm_state.communication_log) < MaxMessages
    /\ cm_state' = SendMessageApply(cm_state, to_id, message_type)
    /\ cm_last' = [op |-> "send_message", result |-> <<FreshMessageId(cm_state)>>]
    /\ UNCHANGED not_cm

\* send_status_update, send_progress_report, send_phase_transition_notice and
\* send_completion_notice: one broadcast of the wrapper's message type
SendBroadcast(op, message_type) ==
    /\ Len(cm_state.communication_log) < MaxMessages
    /\ cm_state' = SendMessageApply(cm_state, << >>, message_type)
    /\ cm_last' = [op |-> op, result |-> <<"Ok">>]
    /\ UNCHANGED not_cm

\* CommunicationManager::send_status_update
SendStatusUpdate == SendBroadcast("send_status_update", "StatusUpdate")

\* CommunicationManager::send_progress_report
SendProgressReport == SendBroadcast("send_progress_report", "ProgressReport")

\* CommunicationManager::send_phase_transition_notice
SendPhaseTransitionNotice ==
    SendBroadcast("send_phase_transition_notice", "PhaseTransition")

\* CommunicationManager::send_completion_notice
SendCompletionNotice == SendBroadcast("send_completion_notice", "CompletionNotice")

\* one message to each of the stakeholders selected, in the map's order
SendToStakeholders(op, selected, message_type) ==
    /\ Len(cm_state.communication_log) + Cardinality(selected) <= MaxMessages
    /\ \E order \in IterationOrders(selected) :
          cm_state' = SendToEach(cm_state, order, message_type)
    /\ cm_last' = [op |-> op, result |-> <<"Ok">>]
    /\ UNCHANGED not_cm

\* CommunicationManager::send_quality_alert
SendQualityAlert ==
    SendToStakeholders("send_quality_alert",
        {id \in DOMAIN cm_state.stakeholders :
            cm_state.stakeholders[id].quality_issues},
        "QualityAlert")

\* CommunicationManager::send_escalation_notice
SendEscalationNotice ==
    SendToStakeholders("send_escalation_notice",
        {id \in DOMAIN cm_state.stakeholders :
            \/ cm_state.stakeholders[id].role = "MasterOrchestrator"
            \/ cm_state.stakeholders[id].escalations},
        "Escalation")

\* CommunicationManager::add_stakeholder
AddStakeholder(stakeholder) ==
    /\ \/ stakeholder.id \in DOMAIN cm_state.stakeholders
       \/ Cardinality(DOMAIN cm_state.stakeholders) < MaxStakeholders
    /\ cm_state' = [cm_state EXCEPT
                       !.stakeholders = MapInsert(@, stakeholder.id, stakeholder)]
    /\ cm_last' = [op |-> "add_stakeholder", result |-> <<"Ok">>]
    /\ UNCHANGED not_cm

\* the index of the first log record with the id, 0 when there is none
FindRecord(log, message_id) ==
    IF \E i \in 1..Len(log) : log[i].id = message_id
    THEN CHOOSE i \in 1..Len(log) :
             /\ log[i].id = message_id
             /\ \A j \in 1..(i - 1) : log[j].id # message_id
    ELSE 0

\* CommunicationManager::acknowledge_message, the state it leaves
AcknowledgeMessageApply(state, message_id) ==
    LET i == FindRecord(state.communication_log, message_id)
    IN  IF i # 0
        THEN [state EXCEPT
                 !.communication_log[i].acknowledged = TRUE,
                 !.metrics.messages_acknowledged = @ + 1]
        ELSE state

\* CommunicationManager::acknowledge_message
AcknowledgeMessage(message_id) ==
    /\ cm_state.metrics.messages_acknowledged < MaxAcknowledged
    /\ cm_state' = AcknowledgeMessageApply(cm_state, message_id)
    /\ cm_last' = [op |-> "acknowledge_message", result |-> <<"Ok">>]
    /\ UNCHANGED not_cm

\* the report requests callers pass to schedule_report
ReportsGiven == {[report_type |-> "DailyStatusUpdate", frequency |-> "Daily"]}

\* CommunicationManager::schedule_report
ScheduleReport(report) ==
    /\ Len(cm_state.scheduled_reports) < MaxReports
    /\ cm_state' = [cm_state EXCEPT !.scheduled_reports = Append(@, report)]
    /\ cm_last' = [op |-> "schedule_report",
                   result |-> <<Len(cm_state.scheduled_reports) + 1>>]
    /\ UNCHANGED not_cm

\* CommunicationManager::generate_performance_report: the counts it prints
GeneratePerformanceReport ==
    /\ cm_last' = [op |-> "generate_performance_report",
                   result |-> <<cm_state.metrics.messages_sent,
                                cm_state.metrics.messages_acknowledged>>]
    /\ UNCHANGED <<cm_state, not_cm>>

\* CommunicationManager::get_communication_metrics
GetCommunicationMetrics ==
    /\ cm_last' = [op |-> "get_communication_metrics",
                   result |-> <<cm_state.metrics>>]
    /\ UNCHANGED <<cm_state, not_cm>>

\* the recipients callers pass to send_message: a broadcast or a stakeholder
RecipientsGiven == {<< >>, << <<"given", 1>> >>}

CMInit ==
    /\ cm_state = CommunicationStateNew
    /\ cm_last = [op |-> "none", result |-> <<"Ok">>]

CMNext ==
    \/ CommunicationStart
    \/ \E to \in RecipientsGiven : SendMessage(to, "PerformanceMetrics")
    \/ SendStatusUpdate
    \/ SendProgressReport
    \/ SendQualityAlert
    \/ SendEscalationNotice
    \/ SendPhaseTransitionNotice
    \/ SendCompletionNotice
    \/ \E s \in StakeholdersGiven : AddStakeholder(s)
    \/ \E m \in MessageIds : AcknowledgeMessage(m)
    \/ \E r \in ReportsGiven : ScheduleReport(r)
    \/ GeneratePerformanceReport
    \/ GetCommunicationMetrics

----------------------------------------------------------------------------
(* Specifications *)

\* the components beside the orchestrator and the coordinator, constructed
----------------------------------------------------------------------------
(* The command loops of MasterOrchestrator and WorkflowCoordinator.  Both
   actors hold an unbounded channel: the sender in command_tx, the receiver
   in command_rx as an Option behind a lock.  start() ends with
   start_command_loop and passes its result on; start_command_loop takes the
   receiver out of the Option and spawns the task that drains the channel.
   The two actors run the same code and share nothing, so one of them is
   followed at a time. *)

MaxStartCalls == 2     \* calls of start() on one actor and its clones
MaxLoopCommands == 3   \* commands sent to one actor

Actors == {"orchestrator", "coordinator"}

StartCalls == 1..MaxStartCalls

\* what handle_command can do: return Ok, return Err, or (the orchestrator's
\* ScaleResources with overflow checks on) panic
HandlerResults(actor) ==
    IF actor = "orchestrator" THEN {"Ok", "Err", "Panic"} ELSE {"Ok", "Err"}

\* rx_guard.take() as it would be if it left the receiver in the Option
ReceiverAfterTake_Left(receiver) == receiver

\* rx_guard.take(): what is left in the Option
ReceiverAfterTake(receiver) == "taken"

\* the loop as it would be if it ended on the first error
TaskAfterHandling_StopOnErr(result) ==
    CASE result = "Ok" -> "receiving"
      [] result = "Err" -> "stopped"
      [] result = "Panic" -> "panicked"

\* while let Some(command) = recv().await { if let Err(e) = handle_command(..)
\* { error!(..) } }: where the task stands after a command
TaskAfterHandling(result) ==
    IF result = "Panic" THEN "panicked" ELSE "receiving"

NoTask == [state |-> "none", command |-> 0]

\* a task that panicked has dropped the receiver: the channel is closed
ChannelClosed == \E t \in StartCalls : cl_tasks[t].state = "panicked"

\* the loop flag of the actor followed
SetLoopFlag(value) ==
    IF cl_actor = "orchestrator"
    THEN orch_loop' = value /\ UNCHANGED coord_loop
    ELSE coord_loop' = value /\ UNCHANGED orch_loop

\* start_command_loop, first half: under the write lock, take the receiver or
\* return Err("Command receiver already taken")
StartCommandLoopTake(c) ==
    /\ cl_calls[c] = "idle"
    /\ cl_receiver' = ReceiverAfterTake(cl_receiver)
    /\ cl_calls' = [cl_calls EXCEPT ![c] = IF cl_receiver = "present"
                                           THEN "holding" ELSE "Err"]
    /\ UNCHANGED <<cl_actor, cl_tasks, cl_queue, cl_sent, cl_handled,
                   orch_loop, coord_loop, not_loop>>

\* start_command_loop, second half: tokio::spawn of the loop, return Ok
StartCommandLoopSpawn(c) ==
    /\ cl_calls[c] = "holding"
    /\ cl_tasks' = [cl_tasks EXCEPT ![c] = [state |-> "receiving", command |-> 0]]
    /\ cl_calls' = [cl_calls EXCEPT ![c] = "Ok"]
    /\ SetLoopFlag("running")
    /\ UNCHANGED <<cl_actor, cl_receiver, cl_queue, cl_sent, cl_handled, not_loop>>

\* command_tx.send(command): commands are numbered in the order sent; a send
\* on a closed channel returns Err and queues nothing
SendCommand ==
    /\ Len(cl_sent) < MaxLoopCommands
    /\ ~ ChannelClosed
    /\ LET command == Len(cl_sent) + 1
       IN  /\ cl_sent' = Append(cl_sent, command)
           /\ cl_queue' = Append(cl_queue, command)
    /\ UNCHANGED <<cl_actor, cl_receiver, cl_calls, cl_tasks, cl_handled,
                   orch_loop, coord_loop, not_loop>>

\* command_rx.recv().await returning Some(command)
LoopRecv(t) ==
    /\ cl_tasks[t].state = "receiving"
    /\ cl_queue # << >>
    /\ cl_tasks' = [cl_tasks EXCEPT ![t] = [state |-> "handling",
                                            command |-> Head(cl_queue)]]
    /\ cl_queue' = Tail(cl_queue)
    /\ UNCHANGED <<cl_actor, cl_receiver, cl_calls, cl_sent, cl_handled,
                   orch_loop, coord_loop, not_loop>>

\* handle_command(command).await comes back with result; an Err is logged
LoopHandle(t, result) ==
    /\ cl_tasks[t].state = "handling"
    /\ result \in HandlerResults(cl_actor)
    /\ cl_handled' = Append(cl_handled, [command |-> cl_tasks[t].command,
                                         result |-> result, task |-> t])
    /\ cl_tasks' = [cl_tasks EXCEPT ![t] = [state |-> TaskAfterHandling(result),
                                            command |-> 0]]
    /\ IF result = "Panic"
       THEN SetLoopFlag("panicked")
       ELSE UNCHANGED <<orch_loop, coord_loop>>
    /\ UNCHANGED <<cl_actor, cl_receiver, cl_calls, cl_queue, cl_sent, not_loop>>

\* the channel of the actor followed, as new() leaves it
LoopInitFor(actor) ==
    /\ cl_actor = actor
    /\ cl_receiver = "present"
    /\ cl_calls = [c \in StartCalls |-> "idle"]
    /\ cl_tasks = [c \in StartCalls |-> NoTask]
    /\ cl_queue = << >>
    /\ cl_sent = << >>
    /\ cl_handled = << >>

LoopInit == LoopInitFor("orchestrator")

LoopNext ==
    \/ \E c \in StartCalls : StartCommandLoopTake(c)
    \/ \E c \in StartCalls : StartCommandLoopSpawn(c)
    \/ SendCommand
    \/ \E t \in StartCalls : LoopRecv(t)
    \/ \E t \in StartCalls, result \in {"Ok", "Err", "Panic"} : LoopHandle(t, result)

\* the runtime polls a spawned task that can go on; a handler comes back
LoopFairness ==
    \A t \in StartCalls :
        /\ WF_vars(LoopRecv(t))
        /\ WF_vars(\E result \in {"Ok", "Err", "Panic"} : LoopHandle(t, result))

----------------------------------------------------------------------------
(* SystemHealthMonitor.  Usages are in percent, the error rate is
   error_count / 100 and so equals error_count in percent, scores are in
   hundredths of a point, a timestamp is the number of the health check. *)

MaxHealthChecks == 2   \* health checks in a run from a new monitor
MaxActiveAlerts == 4   \* alerts held in active_alerts

HealthHistoryCap == 1000

\* HealthThresholds::default
HealthThresholdsDefault ==
    [ cpu_warning         |-> 75, cpu_critical        |-> 90,
      memory_warning      |-> 80, memory_critical     |-> 95,
      disk_warning        |-> 85, disk_critical       |-> 95,
      error_rate_warning  |-> 5,  error_rate_critical |-> 10 ]

\* SystemHealthMonitor::new, state
HealthStateNew ==
    [ overall_status    |-> "Unknown",
      active_alerts     |-> << >>,
      system_load       |-> 0,
      memory_pressure   |-> 0,
      disk_usage        |-> 0,
      network_latency   |-> 0,
      error_rate        |-> 0,
      performance_score |-> 10000 ]

\* collect_metrics as the placeholders answer
PlaceholderReading ==
    [cpu_usage |-> 30, memory_usage |-> 40, disk_usage |-> 50, error_count |-> 2]

\* collect_metrics: what the platform could answer, each metric below its
\* warning threshold, at it, and at its critical threshold
HealthReadings ==
    [ cpu_usage    : {30, 75, 90},
      memory_usage : {40, 80, 95},
      disk_usage   : {50, 85, 95},
      error_count  : {2, 5, 10} ]

\* collect_metrics: the sample built from a reading
HealthMetricsOf(reading, timestamp) ==
    [ timestamp        |-> timestamp,
      cpu_usage        |-> reading.cpu_usage,
      memory_usage     |-> reading.memory_usage,
      disk_usage       |-> reading.disk_usage,
      network_latency  |-> 10,
      active_workflows |-> 5,
      active_agents    |-> 15,
      error_count      |-> reading.error_count,
      warning_count    |-> 5,
      response_time_ms |-> 150 ]

\* analyze_health
AnalyzeHealth(metrics, thresholds) ==
    LET after_cpu ==
            IF metrics.cpu_usage >= thresholds.cpu_critical THEN "Critical"
            ELSE IF metrics.cpu_usage >= thresholds.cpu_warning THEN "Warning"
            ELSE "Healthy"
        after_memory ==
            IF metrics.memory_usage >= thresholds.memory_critical THEN "Critical"
            ELSE IF metrics.memory_usage >= thresholds.memory_warning
                    /\ after_cpu # "Critical" THEN "Warning"
            ELSE after_cpu
        after_disk ==
            IF metrics.disk_usage >= thresholds.disk_critical THEN "Critical"
            ELSE IF metrics.disk_usage >= thresholds.disk_warning
                    /\ after_memory # "Critical" THEN "Warning"
            ELSE after_memory
    IN  IF metrics.error_count >= thresholds.error_rate_critical THEN "Critical"
        ELSE IF metrics.error_count >= thresholds.error_rate_warning
                /\ after_disk # "Critical" THEN "Warning"
        ELSE after_disk

Max(a, b) == IF a >= b THEN a ELSE b

Min(a, b) == IF a <= b THEN a ELSE b

\* calculate_performance_score
CalculatePerformanceScore(metrics) ==
    LET cpu_score == (100 - metrics.cpu_usage) * 25
        memory_score == (100 - metrics.memory_usage) * 25
        disk_score == (100 - metrics.disk_usage) * 20
        response_score == Max(0, 1000 - metrics.response_time_ms) * 2
        error_score == Max(0, 100 - metrics.error_count) * 10
    IN  Min(10000, Max(0, cpu_score + memory_score + disk_score
                             + response_score + error_score))

HealthAlert(title, actions) ==
    [ severity            |-> "Critical",
      title               |-> title,
      acknowledged        |-> FALSE,
      resolved            |-> FALSE,
      source_component    |-> "SystemHealthMonitor",
      recommended_actions |-> actions ]

\* generate_alerts
GenerateAlerts(metrics, thresholds) ==
    (IF metrics.cpu_usage >= thresholds.cpu_critical
     THEN << HealthAlert("High CPU Usage",
                         << "Consider scaling down workflows",
                            "Check for resource-intensive agents" >>) >>
     ELSE << >>)
    \o
    (IF metrics.memory_usage >= thresholds.memory_critical
     THEN << HealthAlert("High Memory Usage",
                         << "Restart agents with memory leaks",
                            "Reduce concurrent workflows" >>) >>
     ELSE << >>)

\* history.push_back(metrics); if history.len() > 1000 { history.pop_front() }
PushMetrics(history, metrics) ==
    LET pushed == Append(history, metrics) IN
    IF Len(pushed) > HealthHistoryCap THEN Tail(pushed) ELSE pushed

\* active_alerts.extend(alerts); active_alerts.retain(|alert| !alert.resolved)
ExtendAlerts(active, alerts) ==
    SelectSeq(active \o alerts, LAMBDA alert : ~ alert.resolved)

\* SystemHealthMonitor::start: spawns the health check loop
HealthMonitorStart ==
    /\ ~ hm_started
    /\ hm_started' = TRUE
    /\ UNCHANGED <<hm_state, hm_history, hm_checks, hm_last, not_hm>>

\* perform_health_check: the HealthState after a sample
HealthStateAfter(state, metrics, thresholds) ==
    [ overall_status    |-> AnalyzeHealth(metrics, thresholds),
      active_alerts     |-> ExtendAlerts(state.active_alerts,
                                         GenerateAlerts(metrics, thresholds)),
      system_load       |-> metrics.cpu_usage,
      memory_pressure   |-> metrics.memory_usage,
      disk_usage        |-> metrics.disk_usage,
      network_latency   |-> metrics.network_latency,
      error_rate        |-> metrics.error_count,
      performance_score |-> CalculatePerformanceScore(metrics) ]

\* what is recorded of a health check
HealthCheckRecord(metrics, thresholds) ==
    [ op      |-> "perform_health_check",
      metrics |-> metrics,
      status  |-> AnalyzeHealth(metrics, thresholds),
      alerts  |-> GenerateAlerts(metrics, thresholds) ]

\* one turn of the loop: perform_health_check, within limit checks
PerformHealthCheckWithin(limit, reading) ==
    LET metrics == HealthMetricsOf(reading, hm_checks + 1)
        alerts == GenerateAlerts(metrics, HealthThresholdsDefault)
    IN  /\ hm_started
        /\ hm_checks < limit
        /\ Len(hm_state.active_alerts) + Len(alerts) <= MaxActiveAlerts
        /\ hm_checks' = hm_checks + 1
        /\ hm_history' = PushMetrics(hm_history, metrics)
        /\ hm_state' = HealthStateAfter(hm_state, metrics, HealthThresholdsDefault)
        /\ hm_last' = HealthCheckRecord(metrics, HealthThresholdsDefault)
        /\ UNCHANGED <<hm_started, not_hm>>

PerformHealthCheck(reading) == PerformHealthCheckWithin(MaxHealthChecks, reading)

HMInit ==
    /\ hm_state = HealthStateNew
    /\ hm_history = << >>
    /\ hm_started = FALSE
    /\ hm_checks = 0
    /\ hm_last = [op |-> "none"]

HMNext ==
    \/ HealthMonitorStart
    \/ \E reading \in HealthReadings : PerformHealthCheck(reading)

ExtInit == WMInit /\ LHInit /\ AMInit /\ CMInit /\ LoopInit /\ HMInit

\* the state after construction
Init == RMInit /\ OrchInit /\ PMInit /\ QAInit /\ CoordInit /\ ExtInit

\* the ResourceManager alone, driven through its public interface
SpecRM == Init /\ [][RMNext]_vars

\* the MasterOrchestrator: its command handlers and the resource sampler
SpecOrch == Init /\ [][OrchNext]_vars

\* the MasterOrchestrator's command handlers on workflows of one type
SpecOrchCommands == Init /\ [][OrchCommandNext]_vars

\* the WorkflowCoordinator: its command handlers
SpecCoord == Init /\ [][CoordNext]_vars

\* the WorkflowManager's calls that bear on the dependency lists
WMDependencyNext ==
    \/ \E t \in TypesGiven : WMCreateWorkflow(t, "High")
    \/ \E w, d \in DOMAIN wm_workflows : AddDependency(w, d)
    \/ \E w, d \in DOMAIN wm_workflows : RemoveDependency(w, d)
    \/ GetReadyWorkflowsCall

\* the WorkflowManager's dependency lists alone
SpecWMDependencies == Init /\ [][WMDependencyNext]_vars

\* the WorkflowManager alone, driven through its public interface
SpecWM == Init /\ [][WMNext]_vars

\* the LeadershipHierarchy alone, driven through its public interface
SpecLH == Init /\ [][LHNext]_vars

\* the AgentManager alone, driven through its public interface
SpecAM == Init /\ [][AMNext]_vars

\* the CommunicationManager alone, driven through its public interface
SpecCM == Init /\ [][CMNext]_vars

\* every requirement of every phase met
PhaseRequirementsAllMet ==
    [ planning     |-> [ objectives_defined      |-> TRUE,
                         scope_documented        |-> TRUE,
                         stakeholders_identified |-> TRUE,
                         timeline_estimated      |-> TRUE ],
      requirements |-> [ ears_format_used            |-> TRUE,
                         functional_requirements     |-> 1,
                         non_functional_requirements |-> 1,
                         acceptance_criteria_defined |-> TRUE ],
      design       |-> [ architecture_documented |-> TRUE,
                         components_identified   |-> TRUE,
                         interfaces_defined      |-> TRUE,
                         data_flow_mapped        |-> TRUE ],
      tasks        |-> [ tasks_broken_down            |-> TRUE,
                         acceptance_criteria_per_task |-> TRUE,
                         dependencies_mapped          |-> TRUE,
                         effort_estimated             |-> TRUE ],
      execute      |-> [ tdd_cycle_followed    |-> TRUE,
                         tests_written_first   |-> TRUE,
                         code_reviewed         |-> TRUE,
                         refactoring_completed |-> TRUE ] ]

\* requirement flags a PhaseManager could hold: one phase's flags in every
\* combination, the other phases' either all unmet (the default) or all met
PhaseRequirementChoices ==
    UNION { UNION {
        { [base EXCEPT !.planning = r] :
            r \in [ objectives_defined : BOOLEAN, scope_documented : BOOLEAN,
                    stakeholders_identified : BOOLEAN, timeline_estimated : BOOLEAN ] },
        { [base EXCEPT !.requirements = r] :
            r \in [ ears_format_used : BOOLEAN, functional_requirements : {0, 1},
                    non_functional_requirements : {0, 1},
                    acceptance_criteria_defined : BOOLEAN ] },
        { [base EXCEPT !.design = r] :
            r \in [ architecture_documented : BOOLEAN, components_identified : BOOLEAN,
                    interfaces_defined : BOOLEAN, data_flow_mapped : BOOLEAN ] },
        { [base EXCEPT !.tasks = r] :
            r \in [ tasks_broken_down : BOOLEAN, acceptance_criteria_per_task : BOOLEAN,
                    dependencies_mapped : BOOLEAN, effort_estimated : BOOLEAN ] },
        { [base EXCEPT !.execute = r] :
            r \in [ tdd_cycle_followed : BOOLEAN, tests_written_first : BOOLEAN,
                    code_reviewed : BOOLEAN, refactoring_completed : BOOLEAN ] } }
      : base \in {PhaseRequirementsDefault, PhaseRequirementsAllMet} }

PhaseInit ==
    /\ RMInit /\ OrchInit /\ QAInit /\ CoordInit /\ ExtInit
    /\ pm_last = [op |-> "none"]
    /\ \E chosen \in PhaseRequirementChoices :
          pm_state = [PhaseManagerNew EXCEPT !.phase_requirements = chosen]

\* the PhaseManager alone, over the requirement flags it could hold
SpecPhase == PhaseInit /\ [][PMNext]_vars

QAFreeInit ==
    /\ RMInit /\ OrchInit /\ PMInit /\ CoordInit /\ ExtInit
    /\ qa_state = QualityStateNew
    /\ qa_standards = QualityStandardsDefault
    /\ validators \in ValidatorAnswers
    /\ qa_last = [op |-> "none"]
    /\ qa_runs = {}

MaxSamplerTicks == 3   \* ticks of each sampler followed around its cap

\* ticks and health checks that went by before the ones followed
SamplerTicksBefore == HistoryCap - 2

HealthChecksBefore == HealthHistoryCap - 2

\* readings of collect_metrics while the samplers are followed
SamplerHealthReadings ==
    { PlaceholderReading, [PlaceholderReading EXCEPT !.cpu_usage = 90] }

\* both samplers after SamplerTicksBefore quiet ticks and HealthChecksBefore
\* checks that read the placeholders
SamplersInit ==
    /\ OrchInit /\ PMInit /\ QAInit /\ CoordInit
    /\ WMInit /\ LHInit /\ AMInit /\ CMInit /\ LoopInit
    /\ rm_state = [ResourceManagerNew EXCEPT !.utilization_history =
                       [i \in 1..SamplerTicksBefore |->
                           [ cpu_utilization    |-> 0,
                             memory_utilization |-> 0,
                             agent_count        |-> U32(0),
                             workflow_count     |-> U32(0) ]]]
    /\ rm_allocs = << >>
    /\ rm_sampler = TRUE
    /\ rm_ticks = SamplerTicksBefore
    /\ rm_granted = 0
    /\ rm_last = [op |-> "tick"]
    /\ hm_state = HealthStateAfter(HealthStateNew,
                                   HealthMetricsOf(PlaceholderReading, HealthChecksBefore),
                                   HealthThresholdsDefault)
    /\ hm_history = [i \in 1..HealthChecksBefore |-> HealthMetricsOf(PlaceholderReading, i)]
    /\ hm_started = TRUE
    /\ hm_checks = HealthChecksBefore
    /\ hm_last = HealthCheckRecord(HealthMetricsOf(PlaceholderReading, HealthChecksBefore),
                                   HealthThresholdsDefault)

SamplersNext ==
    \/ \E u \in UsageReadings :
          UpdateResourceMetricsWithin(SamplerTicksBefore + MaxSamplerTicks, u[1], u[2])
    \/ \E reading \in SamplerHealthReadings :
          PerformHealthCheckWithin(HealthChecksBefore + MaxSamplerTicks, reading)
    \/ \E oc \in BOOLEAN : Scale(U32(1), U32(10), oc)

\* the two samplers around the caps of their histories
SpecSamplers == SamplersInit /\ [][SamplersNext]_vars

\* the SystemHealthMonitor over the readings its platform calls could give
SpecHealth == Init /\ [][HMNext]_vars

\* the command channel of either actor
AnyLoopInit ==
    /\ RMInit /\ OrchInit /\ PMInit /\ QAInit /\ CoordInit
    /\ WMInit /\ LHInit /\ AMInit /\ CMInit /\ HMInit
    /\ \E actor \in Actors : LoopInitFor(actor)

\* the command loop of either actor
SpecLoop == AnyLoopInit /\ [][LoopNext]_vars

\* the command loop of either actor, its task scheduled fairly
SpecLoopFair == AnyLoopInit /\ [][LoopNext]_vars /\ LoopFairness

MaxDrivenPhases == 5   \* phase records and quality gates of a driven workflow

\* the phase that follows in can_transition_to's sequential progression
SuccessorPhase(phase) ==
    CASE phase = "Planning" -> "Requirements"
      [] phase = "Requirements" -> "Design"
      [] phase = "Design" -> "Tasks"
      [] phase = "Tasks" -> "Execute"
      [] phase = "Execute" -> "Execute"

\* a client sends TransitionPhase towards the phase that follows
DriveTransition ==
    \E a \in BOOLEAN :
        TransitionPhaseWithin(MaxDrivenPhases, MaxDrivenPhases,
                              SuccessorPhase(coord_state.current_phase), a)

\* a client that starts the coordinator, sends StartWorkflow once and then
\* TransitionPhase towards each following phase, among other commands
DrivenNext ==
    \/ CoordinatorStart
    \/ StartWorkflowWithin(1)
    \/ DriveTransition
    \/ \E id \in AgentIds, r \in Roles, t \in TaskLists : AssignAgent(id, r, t)
    \/ \E id \in AgentIds : RemoveAgent(id)
    \/ GenerateStatusReport
    \/ CoordPauseWorkflow
    \/ CoordResumeWorkflow
    \/ \E s \in BOOLEAN : CompleteWorkflow(s)

\* the client does not give up: it starts the coordinator, sends
\* StartWorkflow and keeps sending the next TransitionPhase
DrivenFairness ==
    /\ WF_vars(CoordinatorStart)
    /\ WF_vars(StartWorkflowWithin(1))
    /\ WF_vars(DriveTransition)

\* the coordinator as built under a client that drives it through the phases
SpecCoordDriven == Init /\ [][DrivenNext]_vars /\ DrivenFairness

MaxTeamAssigns == 3    \* AssignAgent commands while the team is followed

\* the coordinator's commands that bear on the team
CoordTeamNext ==
    \/ CoordinatorStart
    \/ \E id \in RosterIds, r \in RolesGiven :
          AssignAgentWithin(MaxTeamAssigns, id, r, <<"task">>)
    \/ \E id \in RosterIds : RemoveAgent(id)

\* the coordinator's team commands
SpecCoordTeam == Init /\ [][CoordTeamNext]_vars

\* the coordinator over a PhaseManager whose requirement flags are all unmet
\* (as constructed) or all met
CoordPhaseInit ==
    /\ RMInit /\ OrchInit /\ QAInit /\ CoordInit /\ ExtInit
    /\ pm_last = [op |-> "none"]
    /\ \E chosen \in {PhaseRequirementsDefault, PhaseRequirementsAllMet} :
          pm_state = [PhaseManagerNew EXCEPT !.phase_requirements = chosen]

\* the coordinator's commands that bear on the phase
CoordPhaseNext ==
    \/ CoordinatorStart
    \/ StartWorkflow
    \/ \E p \in WorkflowPhase, a \in BOOLEAN : TransitionPhase(p, a)
    \/ \E m \in {MinimumScoreDefault, 101} : UpdateQualityStandards([minimum_score |-> m])

\* the coordinator's phase commands, over the requirement flags its
\* PhaseManager could hold
SpecCoordPhase == CoordPhaseInit /\ [][CoordPhaseNext]_vars

\* the same client over a PhaseManager whose requirement flags are all met
SpecCoordDrivenMet ==
    /\ CoordPhaseInit
    /\ pm_state.phase_requirements = PhaseRequirementsAllMet
    /\ [][DrivenNext]_vars /\ DrivenFairness

\* QualityAssurance alone, over every answer its deliverable checks could give
SpecQA == QAFreeInit /\ [][QANext]_vars

----------------------------------------------------------------------------
(* Claims *)

\* C1: a CreateWorkflow command is accepted only while fewer than max_workflows
\* workflows are active, so after an accepted CreateWorkflow neither the
\* registry nor the active-workflow count exceeds max_workflows.
C1_AdmissionCapped ==
    (orch_last.cmd = "CreateWorkflow" /\ orch_last.result = "Ok") =>
        /\ Le32(U32(Cardinality(DOMAIN workflows)), rm_state.max_workflows)
        /\ Le32(U32(orch_state.active_workflows), rm_state.max_workflows)

\* C2: in every reachable ResourceState the available CPU and the available
\* memory are at most the totals.
C2_AvailableWithinTotal ==
    /\ rm_state.available_cpu_cores <= rm_state.total_cpu_cores
    /\ rm_state.available_memory_mb <= rm_state.total_memory_mb

\* C3: deallocate_resources called with the allocation that the directly
\* preceding, successful allocate_resources returned leaves the four ledger
\* counters at their values before the allocation.
C3_RoundTrip ==
    (rm_last.op = "deallocate" /\ rm_last.round_trip) =>
        /\ rm_state.available_cpu_cores = rm_last.pre.available_cpu_cores
        /\ rm_state.available_memory_mb = rm_last.pre.available_memory_mb
        /\ rm_state.active_agents = rm_last.pre.active_agents
        /\ rm_state.active_workflows = rm_last.pre.active_workflows

\* C4: can_allocate_workflow answers true exactly when active_workflows <
\* max_workflows, at least one core and at least 512 MB are available; at
\* active_workflows = max_workflows it answers false whatever the headroom.
C4_CanAdmit ==
    rm_last.op = "can_allocate_workflow" =>
        /\ rm_last.result <=>
              /\ Lt32(rm_state.active_workflows, rm_state.max_workflows)
              /\ rm_state.available_cpu_cores >= 100
              /\ rm_state.available_memory_mb >= 512
        /\ rm_state.active_workflows = rm_state.max_workflows => ~ rm_last.result

\* can_allocate_workflow was asked at the workflow limit with CPU and memory
\* headroom left, and refused
C4_Witness ==
    /\ rm_last.op = "can_allocate_workflow"
    /\ rm_state.active_workflows = rm_state.max_workflows
    /\ rm_state.active_workflows # U32(0)
    /\ rm_state.available_cpu_cores >= 100
    /\ rm_state.available_memory_mb >= 512
    /\ ~ rm_last.result

\* C5: allocate_resources returns None and leaves the state alone exactly when
\* the grant would drive available CPU, available memory, agent headroom or
\* workflow headroom below zero; otherwise it subtracts the request from the
\* available counters, adds agent_count and 1 to the active counters and
\* returns an allocation of those amounts.
C5_AllocateContract ==
    rm_last.op = "allocate" =>
        LET pre == rm_last.pre
            req == rm_last.request
            would_go_negative ==
                \/ pre.available_cpu_cores < req.cpu_cores
                \/ pre.available_memory_mb < req.memory_mb
                \/ Add32Overflows(pre.active_agents, req.agent_count)
                \/ Lt32(pre.max_agents, Add32(pre.active_agents, req.agent_count))
                \/ Le32(pre.max_workflows, pre.active_workflows)
        IN  /\ rm_last.result = "None" <=> would_go_negative
            /\ rm_last.result = "Some" <=> ~ would_go_negative
            /\ rm_last.result = "None" => Ledger(rm_state) = pre
            /\ rm_last.result = "Some" =>
                  /\ rm_state.available_cpu_cores = pre.available_cpu_cores - req.cpu_cores
                  /\ rm_state.available_memory_mb = pre.available_memory_mb - req.memory_mb
                  /\ rm_state.active_agents = Add32(pre.active_agents, req.agent_count)
                  /\ rm_state.active_workflows = Add32(pre.active_workflows, U32(1))
                  /\ rm_allocs[Len(rm_allocs)] =
                        [ allocated_cpu    |-> req.cpu_cores,
                          allocated_memory |-> req.memory_mb,
                          allocated_agents |-> req.agent_count ]

\* C6: can_transition_to(target) is true exactly when every requirement flag
\* of the current phase is met and target is the next phase in Planning,
\* Requirements, Design, Tasks, Execute or the current phase itself; for any
\* other pair it is false whatever the flags.
C6_CanTransition ==
    pm_last.op = "can_transition_to" =>
        LET order == <<"Planning", "Requirements", "Design", "Tasks", "Execute">>
            idx(p) == CHOOSE i \in 1..5 : order[i] = p
            cur == pm_state.current_phase
            tgt == pm_last.phase
            reqs == pm_state.phase_requirements
            met == CASE cur = "Planning"     -> \A f \in DOMAIN reqs.planning : reqs.planning[f]
                     [] cur = "Requirements" ->
                            /\ reqs.requirements.ears_format_used
                            /\ reqs.requirements.functional_requirements > 0
                            /\ reqs.requirements.non_functional_requirements > 0
                            /\ reqs.requirements.acceptance_criteria_defined
                     [] cur = "Design"       -> \A f \in DOMAIN reqs.design : reqs.design[f]
                     [] cur = "Tasks"        -> \A f \in DOMAIN reqs.tasks : reqs.tasks[f]
                     [] cur = "Execute"      -> \A f \in DOMAIN reqs.execute : reqs.execute[f]
            listed == idx(tgt) = idx(cur) + 1 \/ tgt = cur
        IN  /\ pm_last.result <=> (met /\ listed)
            /\ ~ listed => ~ pm_last.result

\* can_transition_to allowed the step from a phase other than Planning to its
\* successor
C6_Witness ==
    /\ pm_last.op = "can_transition_to"
    /\ pm_last.result
    /\ pm_state.current_phase = "Requirements"
    /\ pm_last.phase = "Design"

C8_RejectedLeavesPhase ==
    [][ (coord_last'.cmd[1] = "TransitionPhase" /\ coord_last'.result = "Err") =>
            /\ coord_state'.current_phase = coord_state.current_phase
            /\ pm_state'.current_phase = pm_state.current_phase
            /\ pm_state'.phase_history = pm_state.phase_history
            /\ \A i \in 1..Len(coord_last'.events) :
                  coord_last'.events[i].event # "PhaseTransitioned" ]_vars

\* a TransitionPhase to the next phase was rejected in a started workflow
C8_Witness ==
    /\ coord_last.cmd = <<"TransitionPhase", "Requirements">>
    /\ coord_last.result = "Err"
    /\ coord_state.current_phase = "Planning"
    /\ Len(pm_state.phase_history) = 1

\* C9: every TransitionPhase to the next phase that the phase gate blocks
\* sends a QualityGateFailed event.
C9_BlockedEmitsQualityGateFailed ==
    ( /\ coord_last.cmd[1] = "TransitionPhase"
      /\ coord_last.result = "Err"
      /\ ValidTransition(coord_state.current_phase, coord_last.cmd[2])
      /\ coord_last.cmd[2] # coord_state.current_phase ) =>
        \E i \in 1..Len(coord_last.events) :
            coord_last.events[i].event = "QualityGateFailed"

\* C10: validate_phase_completion sets the score to max(0, 100 - the penalties
\* of the failed checks of the phase), passes exactly when the score reaches
\* minimum_score, and appends one unresolved issue per failed check; a failed
\* EARS check in Requirements gives at most 70 and fails the default minimum.
C10_Scoring ==
    qa_last.op = "validate_phase_completion" =>
        LET v == validators
            ph == qa_last.phase
            failed == CASE ph = "Planning" ->
                              (IF v.has_clear_objectives THEN {} ELSE {<<"objectives", 20>>})
                              \cup (IF v.has_documented_scope THEN {} ELSE {<<"scope", 15>>})
                        [] ph = "Requirements" ->
                              (IF v.uses_ears_format THEN {} ELSE {<<"ears", 30>>})
                              \cup (IF v.has_complete_requirements THEN {}
                                    ELSE {<<"complete", 25>>})
                        [] ph = "Design" ->
                              IF v.has_architecture_documentation THEN {}
                              ELSE {<<"architecture", 25>>}
                        [] ph = "Tasks" ->
                              IF v.has_proper_task_breakdown THEN {} ELSE {<<"breakdown", 20>>}
                        [] ph = "Execute" ->
                              (IF v.follows_tdd_cycle THEN {} ELSE {<<"tdd", 30>>})
                              \cup (IF v.meets_code_quality_standards THEN {}
                                    ELSE {<<"quality", 20>>})
            penalties == IF failed = {} THEN 0
                         ELSE IF Cardinality(failed) = 1
                         THEN (CHOOSE c \in failed : TRUE)[2]
                         ELSE LET a == CHOOSE c \in failed : TRUE
                                  b == CHOOSE c \in failed \ {a} : TRUE
                              IN  a[2] + b[2]
            score == IF 100 - penalties < 0 THEN 0 ELSE 100 - penalties
            issues == qa_state.active_issues
        IN  /\ qa_state.current_score = score
            /\ qa_state.phase_scores[ph] = score
            /\ qa_last.passed <=> score >= qa_standards.minimum_score
            /\ Len(issues) = qa_last.issues_before + Cardinality(failed)
            /\ \A i \in (qa_last.issues_before + 1)..Len(issues) :
                  ~ issues[i].resolved /\ issues[i].phase = ph
            /\ (ph = "Requirements" /\ ~ v.uses_ears_format) =>
                  /\ score <= 70
                  /\ qa_standards.minimum_score = 75 => ~ qa_last.passed

\* the Requirements phase was validated with the EARS check failing, against
\* the default minimum score, and did not pass
C10_Witness ==
    /\ qa_last.op = "validate_phase_completion"
    /\ qa_last.phase = "Requirements"
    /\ ~ validators.uses_ears_format
    /\ qa_standards.minimum_score = 75
    /\ qa_state.current_score <= 70
    /\ ~ qa_last.passed
    /\ Len(qa_state.active_issues) > qa_last.issues_before

\* C11: validate_phase_completion is deterministic: two runs for the same
\* phase (the check answers being the same) give the same score whatever
\* quality state each started from, and with the same minimum_score the same
\* pass/fail result.
C11_Deterministic ==
    \A r1, r2 \in qa_runs :
        r1.phase = r2.phase =>
            /\ r1.score = r2.score
            /\ r1.minimum_score = r2.minimum_score => r1.passed = r2.passed

\* the same phase was validated twice against the same minimum score, the
\* second run starting from the state the first one left, with a check failing
C11_Witness ==
    \E r1, r2 \in qa_runs :
        /\ r1.nth = 0 /\ r2.nth = 1
        /\ r1.phase = r2.phase
        /\ r1.minimum_score = r2.minimum_score
        /\ r1.score < 100
        /\ Len(qa_state.active_issues) >= 2

\* C12: get_next_workflow_by_priority returns a Queued workflow all of whose
\* dependencies are Completed and that lies in the highest priority tier
\* holding such a workflow; it returns None when no Queued workflow has all
\* its dependencies Completed.
C12_NextByPriority ==
    wm_last.op = "get_next_workflow_by_priority" =>
        LET rank(p) == CHOOSE k \in 1..4 : <<"Critical", "High", "Medium", "Low">>[k] = p
            completed(d) == d \in DOMAIN wm_workflows /\ wm_workflows[d].status = "Completed"
            eligible == { id \in DOMAIN wm_workflows :
                            /\ wm_workflows[id].status = "Queued"
                            /\ \A i \in 1..Len(wm_workflows[id].dependencies) :
                                  completed(wm_workflows[id].dependencies[i]) }
        IN  /\ eligible = {} <=> wm_last.result = << >>
            /\ wm_last.result # << >> =>
                  /\ wm_last.result[1] \in eligible
                  /\ \A other \in eligible :
                        rank(wm_workflows[wm_last.result[1]].priority)
                            <= rank(wm_workflows[other].priority)

\* C13: a workflow is reported ready, by get_ready_workflows or by
\* get_next_workflow_by_priority, only when it is Queued and each of its
\* dependencies is a registered workflow whose status is Completed.
C13_ReadyOnlyWhenCompleted ==
    LET completed(d) == d \in DOMAIN wm_workflows /\ wm_workflows[d].status = "Completed"
        ready(id) == /\ id \in DOMAIN wm_workflows
                     /\ wm_workflows[id].status = "Queued"
                     /\ \A i \in 1..Len(wm_workflows[id].dependencies) :
                           completed(wm_workflows[id].dependencies[i])
    IN  /\ wm_last.op = "get_ready_workflows" => \A id \in wm_last.result : ready(id)
        /\ (wm_last.op = "get_next_workflow_by_priority" /\ wm_last.result # << >>) =>
              ready(wm_last.result[1])

\* C14: can_make_decision(actor, type) is true exactly when the actor is the
\* master and the type is in master_authority, or the actor has a coordinator
\* or specialist entry in the matrix that contains the type; an actor that is
\* not the master and has no entry is refused every type, however many
\* coordinators were created.
C14_ExplicitGrantsOnly ==
    lh_last.op = "can_make_decision" =>
        LET matrix == lh_state.decision_matrix
            actor == lh_last.actor
            type == lh_last.decision_type
            granted(authority) ==
                actor \in DOMAIN authority /\ type \in authority[actor]
            has_entry ==
                \/ actor \in DOMAIN matrix.coordinator_authority
                \/ actor \in DOMAIN matrix.specialist_authority
        IN  /\ lh_last.result <=>
                   \/ actor = MasterId /\ type \in matrix.master_authority
                   \/ granted(matrix.coordinator_authority)
                   \/ granted(matrix.specialist_authority)
            /\ (actor # MasterId /\ ~ has_entry) => ~ lh_last.result

\* a registered specialist, which has no matrix entry, was refused a type the
\* master holds while a coordinator with a grant exists
C14_Witness ==
    /\ lh_last.op = "can_make_decision"
    /\ lh_last.actor \in DOMAIN lh_state.specialists
    /\ lh_last.decision_type \in lh_state.decision_matrix.master_authority
    /\ DOMAIN lh_state.decision_matrix.coordinator_authority # {}
    /\ lh_last.result = FALSE

\* C15: whatever the type, either the master can make the decision or
\* escalate_decision returns a chain that is not empty and contains the
\* master; escalate_decision never returns an empty chain.
C15_EveryTypeDecidable ==
    lh_last.op = "escalate_decision" =>
        LET chain == lh_last.result
            reaches_master == \E i \in 1..Len(chain) : chain[i] = MasterId
        IN  /\ chain # << >>
            /\ \/ CanMakeDecision(lh_state, MasterId, lh_last.decision_type)
               \/ reaches_master

\* C16: escalate_decision returns the chain configured for the type when one
\* is configured and exactly [master_id] when none is, whoever the requester.
C16_EscalationChain ==
    lh_last.op = "escalate_decision" =>
        LET paths == lh_state.decision_matrix.escalation_paths
            type == lh_last.decision_type
        IN  /\ type \in DOMAIN paths => lh_last.result = paths[type]
            /\ type \notin DOMAIN paths => lh_last.result = <<MasterId>>
            /\ \A requester \in ActorsGiven :
                   EscalateDecision(lh_state, type, requester) = lh_last.result

\* a coordinator escalated a type with no configured path and got the master
C16_Witness ==
    /\ lh_last.op = "escalate_decision"
    /\ lh_last.actor \in DOMAIN lh_state.coordinators
    /\ lh_last.decision_type \notin DOMAIN lh_state.decision_matrix.escalation_paths
    /\ lh_last.result = <<MasterId>>

\* C17: once CompleteWorkflow has run finalize_all_agents every agent of the
\* roster is Completed, and no coordinator command handled afterwards changes
\* the roster or the status of an agent.
C17_FinalizedRosterFrozen ==
    [][ /\ coord_last'.cmd[1] = "CompleteWorkflow" =>
               \A a \in DOMAIN agents' : agents'[a].status = "Completed"
        /\ coord_state.performance_metrics.workflows_managed > 0 =>
               agents' = agents ]_vars

\* C18: pause_all_agents leaves every agent Paused; resume_all_agents makes
\* Active exactly the agents that were Paused and leaves every other agent as
\* it was.
C18_PauseResume ==
    LET before == am_last.before
    IN  /\ am_last.op = "pause_all_agents" =>
               /\ DOMAIN agents = DOMAIN before
               /\ \A a \in DOMAIN agents : agents[a].status = "Paused"
        /\ am_last.op = "resume_all_agents" =>
               /\ DOMAIN agents = DOMAIN before
               /\ \A a \in DOMAIN agents :
                      /\ before[a].status = "Paused" => agents[a].status = "Active"
                      /\ before[a].status # "Paused" => agents[a] = before[a]
                      /\ agents[a].role = before[a].role

\* a resume met one agent that a pause had left Paused and one that was
\* assigned after the pause
C18_Witness ==
    /\ am_last.op = "resume_all_agents"
    /\ \E a, b \in DOMAIN agents :
           /\ am_last.before[a].status = "Paused"
           /\ agents[a].status = "Active"
           /\ am_last.before[b].status = "Assigned"
           /\ agents[b].status = "Assigned"

\* C19: assign_agent leaves one entry for the id, with the role and the tasks
\* given and status Assigned, whatever entry the id had; remove_agent deletes
\* the entry and returns its role; removing an id that has no entry returns
\* none and leaves the roster as it was.
C19_AssignRemove ==
    LET before == am_last.before
        id == am_last.agent_id
        others_kept(after) ==
            /\ DOMAIN after \ {id} = DOMAIN before \ {id}
            /\ \A a \in DOMAIN after \ {id} : after[a] = before[a]
    IN  /\ am_last.op = "assign_agent" =>
               /\ id \in DOMAIN agents
               /\ agents[id] = [role |-> am_last.role, status |-> "Assigned",
                                assigned_tasks |-> am_last.tasks]
               /\ others_kept(agents)
        /\ am_last.op = "remove_agent" =>
               /\ id \notin DOMAIN agents
               /\ others_kept(agents)
               /\ id \in DOMAIN before => am_last.result = before[id].role
               /\ id \notin DOMAIN before =>
                      am_last.result = "None" /\ agents = before

\* an assign overwrote the entry of a Paused agent that had another role
C19_Witness ==
    /\ am_last.op = "assign_agent"
    /\ am_last.agent_id \in DOMAIN am_last.before
    /\ am_last.before[am_last.agent_id].status = "Paused"
    /\ am_last.before[am_last.agent_id].role # am_last.role
    /\ agents[am_last.agent_id].role = am_last.role

\* C20: after any sequence of send_message and acknowledge_message calls,
\* messages_acknowledged equals the number of log records whose acknowledged
\* flag is set (a second acknowledgement of a message counts nothing) and
\* never exceeds messages_sent.
C20_AcknowledgedCount ==
    LET log == cm_state.communication_log
        flagged == {i \in 1..Len(log) : log[i].acknowledged}
    IN  /\ cm_state.metrics.messages_acknowledged = Cardinality(flagged)
        /\ cm_state.metrics.messages_acknowledged <= cm_state.metrics.messages_sent

\* C21: send_escalation_notice sends its Escalation messages only to
\* stakeholders whose escalations setting is true, and send_quality_alert
\* sends its QualityAlert messages only to stakeholders whose quality_issues
\* setting is true, whatever the stakeholder's role.
C21_NoticesOptIn ==
    [][ LET log == cm_state'.communication_log
            sent == (Len(cm_state.communication_log) + 1)..Len(log)
            settings(i) == cm_state.stakeholders[log[i].to_id[1]]
        IN  /\ cm_last'.op = "send_escalation_notice" =>
                   \A i \in sent : settings(i).escalations
            /\ cm_last'.op = "send_quality_alert" =>
                   \A i \in sent : settings(i).quality_issues ]_vars

\* C22: once EmergencyShutdown has been handled no workflow is left active
\* (the registry holds none and active_workflows is 0), the orchestrator's
\* status is Shutdown, and one EmergencyAlert of severity Critical was sent.
C22_ShutdownCompletes ==
    orch_last.cmd = "EmergencyShutdown" =>
        /\ orch_last.result = "Ok"
        /\ \A id \in DOMAIN workflows :
               workflows[id].status \in {"Completed", "Failed"}
        /\ orch_state.active_workflows = 0
        /\ orch_state.status = "Shutdown"
        /\ Len(orch_last.events) = 1
        /\ orch_last.events[1].event = "EmergencyAlert"
        /\ orch_last.events[1].severity = "Critical"

\* an EmergencyShutdown was handled while two workflows had been created and
\* both count as failed
C22_Witness ==
    /\ orch_last.cmd = "EmergencyShutdown"
    /\ orch_state.total_workflows = 2
    /\ orch_state.failed_workflows = 2
    /\ orch_state.status = "Shutdown"

\* C23: a CancelWorkflow command leaves every workflow of the registry in the
\* registry: the cancelled one stays, with status Failed and a completion
\* timestamp, so that get_workflow and list_workflows still return it.
C23_CancelIsSoft ==
    [][ orch_last'.cmd = "CancelWorkflow" =>
            \A id \in DOMAIN workflows :
                /\ id \in DOMAIN workflows'
                /\ \/ workflows'[id] = workflows[id]
                   \/ /\ workflows'[id].status = "Failed"
                      /\ workflows'[id].completed_at # "None" ]_vars

\* C24: a CreateWorkflow command handled while can_allocate_workflow is false
\* fails and changes nothing: the registry, the orchestrator's counters and
\* the ResourceState stay as they were and no event is sent.
C24_RefusedCreateChangesNothing ==
    [][ \A t \in WorkflowTypes, p \in PrioritiesGiven :
            (/\ orch_last'.cmd = "CreateWorkflow"
             /\ ~ CanAllocateWorkflow(rm_state)
             /\ CreateWorkflow(t, p)) =>
                /\ orch_last'.result = "Err"
                /\ orch_last'.events = << >>
                /\ workflows' = workflows
                /\ orch_state' = orch_state
                /\ rm_state' = rm_state ]_vars

\* a CreateWorkflow command was refused after one had been admitted
C24_Witness ==
    /\ orch_last.cmd = "CreateWorkflow"
    /\ orch_last.result = "Err"
    /\ ~ CanAllocateWorkflow(rm_state)
    /\ orch_state.total_workflows = 1

\* C26: a CreateWorkflow command handled while can_allocate_workflow is true
\* is admitted: the registry gains exactly one workflow, Queued, of the type
\* and the priority requested, total_workflows and active_workflows grow by
\* one each, and one WorkflowCreated event carries the new id and the type.
C26_AdmittedCreate ==
    [][ \A t \in WorkflowTypes, p \in PrioritiesGiven :
            (/\ orch_last'.cmd = "CreateWorkflow"
             /\ CanAllocateWorkflow(rm_state)
             /\ CreateWorkflow(t, p)) =>
                LET new == DOMAIN workflows' \ DOMAIN workflows
                IN  /\ orch_last'.result = "Ok"
                    /\ Cardinality(new) = 1
                    /\ \A id \in DOMAIN workflows : workflows'[id] = workflows[id]
                    /\ \A id \in new :
                           /\ workflows'[id].status = "Queued"
                           /\ workflows'[id].priority = p
                           /\ workflows'[id].workflow_type = t
                           /\ orch_last'.events =
                                  << [event |-> "WorkflowCreated",
                                      workflow_id |-> id,
                                      workflow_type |-> t] >>
                    /\ orch_state'.total_workflows = orch_state.total_workflows + 1
                    /\ orch_state'.active_workflows = orch_state.active_workflows + 1 ]_vars

\* a code-review workflow of priority High was admitted and is Queued
C26_Witness ==
    /\ orch_last.cmd = "CreateWorkflow"
    /\ orch_last.result = "Ok"
    /\ \E id \in DOMAIN workflows :
           /\ orch_last.events[1].workflow_id = id
           /\ workflows[id] = NewWorkflowInfo("code-review", "High")

\* C30: scale(target_workflows, max_agents_per_workflow) returns with
\* max_workflows = target_workflows and max_agents equal to the product of
\* its arguments, which fits in u32, and leaves the available CPU and memory,
\* active_agents, active_workflows and the history as they were.
C30_ScaleSetsMaxima ==
    [][ \A a \in ScaleArgs, oc \in BOOLEAN :
            (rm_last'.op = "scale" /\ Scale(a[1], a[2], oc)) =>
                /\ rm_last'.result = "Ok"
                /\ rm_state'.max_workflows = a[1]
                /\ ~ Mul32Overflows(a[1], a[2])
                /\ rm_state'.max_agents = Mul32(a[1], a[2])
                /\ rm_state' = [rm_state EXCEPT
                                    !.max_workflows = rm_state'.max_workflows,
                                    !.max_agents = rm_state'.max_agents] ]_vars

\* C27: once StartWorkflow has been handled the coordinator's status is
\* Coordinating, its current phase is Planning, and the last record of the
\* PhaseManager's history is the initial one (from none, to Planning).
C27_StartWorkflow ==
    coord_last.cmd = <<"StartWorkflow">> =>
        LET history == pm_state.phase_history
        IN  /\ coord_state.status = "Coordinating"
            /\ coord_state.current_phase = "Planning"
            /\ pm_state.current_phase = "Planning"
            /\ history # << >>
            /\ history[Len(history)].from_phase = "None"
            /\ history[Len(history)].to_phase = "Planning"

\* C28: a TransitionPhase command that passes can_transition_to and the quality
\* gate sets the current phase of the coordinator and of the PhaseManager to
\* the target, appends one record (from the previous phase, to the target,
\* with the target's outputs) to the history, and sends PhaseTransitioned
\* followed by QualityGatePassed; one that does not pass sends neither.
C28_PassedTransition ==
    [][ coord_last'.cmd[1] = "TransitionPhase" =>
            LET target == coord_last'.cmd[2]
                passes == /\ CanTransitionTo(pm_state, target)
                          /\ ValidatePhaseCompletionPassed(qa_standards, validators,
                                                           coord_state.current_phase)
                history == pm_state'.phase_history
                events == coord_last'.events
            IN  (TransitionPhase(target, TRUE) \/ TransitionPhase(target, FALSE)) =>
                    /\ passes =>
                           /\ coord_state'.current_phase = target
                           /\ pm_state'.current_phase = target
                           /\ Len(history) = Len(pm_state.phase_history) + 1
                           /\ SubSeq(history, 1, Len(history) - 1) = pm_state.phase_history
                           /\ history[Len(history)].from_phase = pm_state.current_phase
                           /\ history[Len(history)].from_phase = coord_state.current_phase
                           /\ history[Len(history)].to_phase = target
                           /\ history[Len(history)].outputs = GetPhaseOutputs(target)
                           /\ Len(events) = 2
                           /\ events[1].event = "PhaseTransitioned"
                           /\ events[1].from_phase = coord_state.current_phase
                           /\ events[1].to_phase = target
                           /\ events[2].event = "QualityGatePassed"
                    /\ ~ passes =>
                           \A i \in 1..Len(events) :
                               events[i].event \notin {"PhaseTransitioned",
                                                       "QualityGatePassed"} ]_vars

\* in a started workflow a TransitionPhase from Planning to Requirements
\* passed
C28_Witness ==
    /\ coord_last.cmd = <<"TransitionPhase", "Requirements">>
    /\ coord_last.result = "Ok"
    /\ coord_state.current_phase = "Requirements"
    /\ pm_state.current_phase = "Requirements"
    /\ Len(pm_state.phase_history) = 2
    /\ pm_state.phase_history[2].from_phase = "Planning"

C29_OneLoopTask ==
    LET spawned == {t \in StartCalls : cl_tasks[t].state # "none"}
        took == {c \in StartCalls : cl_calls[c] \in {"holding", "Ok"}}
        handling == {t \in StartCalls : cl_tasks[t].state = "handling"}
    IN  /\ Cardinality(spawned) <= 1
        /\ Cardinality(took) <= 1
        /\ spawned \subseteq took
        /\ cl_receiver = "taken" <=> (\E c \in StartCalls : cl_calls[c] # "idle")
        /\ \A c \in StartCalls : cl_calls[c] = "Err" => (took # {} /\ c \notin spawned)
        /\ Cardinality(handling) <= 1
        /\ \A t \in handling : cl_tasks[t].command = Len(cl_handled) + 1
        /\ \A k \in 1..Len(cl_handled) :
               /\ cl_handled[k].command = k
               /\ cl_handled[k].task \in spawned
        /\ Len(cl_handled) + Cardinality(handling) + Len(cl_queue) = Len(cl_sent)
        /\ \A k \in 1..Len(cl_queue) :
               cl_queue[k] = Len(cl_handled) + Cardinality(handling) + k

\* a call of start failed while the call that took the receiver had not yet
\* spawned the loop
C29_Witness ==
    /\ \E c \in StartCalls, d \in StartCalls :
          /\ cl_calls[c] = "holding"
          /\ cl_calls[d] = "Err"
    /\ \A t \in StartCalls : cl_tasks[t].state = "none"
    /\ cl_queue # << >>

C32_HistoriesCapped ==
    /\ [] (/\ Len(rm_state.utilization_history) <= HistoryCap
           /\ Len(hm_history) <= HealthHistoryCap)
    /\ [][ rm_ticks' = rm_ticks + 1 =>
               LET before == rm_state.utilization_history
                   after == rm_state'.utilization_history
                   all == Append(before, after[Len(after)])
                   kept == IF Len(all) <= 100 THEN Len(all) ELSE 100
               IN  /\ after # << >>
                   /\ after = SubSeq(all, Len(all) - kept + 1, Len(all))
                   /\ after[Len(after)].agent_count = rm_state.active_agents
                   /\ after[Len(after)].workflow_count = rm_state.active_workflows
                   /\ rm_state'.active_agents = rm_state.active_agents
                   /\ rm_state'.active_workflows = rm_state.active_workflows
                   /\ rm_state'.max_agents = rm_state.max_agents
                   /\ rm_state'.max_workflows = rm_state.max_workflows ]_vars
    /\ [][ hm_checks' = hm_checks + 1 =>
               LET after == hm_history'
                   all == Append(hm_history, after[Len(after)])
                   kept == IF Len(all) <= 1000 THEN Len(all) ELSE 1000
               IN  /\ after # << >>
                   /\ after[Len(after)].timestamp = hm_checks'
                   /\ after = SubSeq(all, Len(all) - kept + 1, Len(all))
                   /\ rm_state' = rm_state ]_vars

\* both histories are full and have dropped their oldest entry
C32_Witness ==
    /\ rm_ticks > HistoryCap
    /\ Len(rm_state.utilization_history) = HistoryCap
    /\ rm_state.utilization_history[HistoryCap].cpu_utilization = 90
    /\ rm_state.max_agents = U32(10)
    /\ hm_checks > HealthHistoryCap
    /\ Len(hm_history) = HealthHistoryCap
    /\ hm_history[1].timestamp = hm_checks - HealthHistoryCap + 1

\* C33: under any interleaving of allocate_resources, deallocate_resources
\* and scale calls on a shared ResourceManager, active_workflows never
\* exceeds max_workflows and active_agents never exceeds max_agents.
C33_UsageWithinMaxima ==
    /\ ~ Lt32(rm_state.max_workflows, rm_state.active_workflows)
    /\ ~ Lt32(rm_state.max_agents, rm_state.active_agents)

\* C34: after every command the orchestrator's loop has processed,
\* active_workflows equals the number of workflows in the registry and
\* total_workflows = active_workflows + completed_workflows +
\* failed_workflows, whatever the sequence of CreateWorkflow, PauseWorkflow,
\* ResumeWorkflow, CancelWorkflow (of known, unknown or already cancelled ids)
\* and EmergencyShutdown.
C34_CountersMatchRegistry ==
    /\ orch_state.active_workflows = Cardinality(DOMAIN workflows)
    /\ orch_state.total_workflows =
           orch_state.active_workflows + orch_state.completed_workflows
           + orch_state.failed_workflows

\* two workflows were created and one of them cancelled
C34_Witness ==
    /\ orch_last.cmd = "CancelWorkflow"
    /\ orch_state.total_workflows = 2
    /\ orch_state.failed_workflows = 1
    /\ Cardinality(DOMAIN workflows) = 1

\* C35: once the coordinator's status is Completed or Failed it is terminal:
\* no later command changes the status or the current phase.
C35_CompletionIsTerminal ==
    [][ (/\ coord_state.status \in {"Completed", "Failed"}
         /\ coord_last'.cmd # <<"start">>) =>
            /\ coord_state'.status = coord_state.status
            /\ coord_state'.current_phase = coord_state.current_phase ]_vars

\* C36: once the orchestrator's status is Shutdown it stays Shutdown and no
\* workflow is admitted any more: every later CreateWorkflow is rejected and
\* no later command moves the status away from Shutdown.
C36_ShutdownIsFinal ==
    [][ (/\ orch_state.status = "Shutdown"
         /\ orch_last'.cmd # "start") =>
            /\ orch_state'.status = "Shutdown"
            /\ DOMAIN workflows' \subseteq DOMAIN workflows
            /\ (\E p \in PrioritiesGiven : CreateWorkflow("code-review", p)) =>
                   orch_last'.result = "Err" ]_vars

\* C37: at the orchestrator PauseWorkflow followed by ResumeWorkflow on the
\* same workflow restores the status the workflow had before the pause, and
\* the two WorkflowStatusChanged events chain: the resume's old_status is
\* Paused and its new_status is the status before the pause.
C37_PauseResumeRestores ==
    [][ (/\ orch_last.cmd = "PauseWorkflow"
         /\ orch_last.events # << >>
         /\ orch_last'.cmd = "ResumeWorkflow"
         /\ ResumeWorkflow(orch_last.events[1].workflow_id)) =>
            LET paused == orch_last.events[1]
                resumed == orch_last'.events
            IN  /\ workflows'[paused.workflow_id].status = paused.old_status
                /\ Len(resumed) = 1
                /\ resumed[1].event = "WorkflowStatusChanged"
                /\ resumed[1].workflow_id = paused.workflow_id
                /\ resumed[1].old_status = "Paused"
                /\ resumed[1].new_status = paused.old_status ]_vars

\* C38: after any sequence of AssignAgent and RemoveAgent commands, among
\* them the assignment of an id already in the roster and the removal of an
\* id that is not, team_composition.active_agents equals the number of agents
\* in the AgentManager's roster and agent_roles[role] equals the number of
\* roster agents with that role.
C38_TeamMatchesRoster ==
    LET team == coord_state.team_composition
        with_role(role) == {a \in DOMAIN agents : agents[a].role = role}
    IN  /\ team.active_agents = Cardinality(DOMAIN agents)
        /\ \A role \in RolesGiven :
               (IF role \in DOMAIN team.agent_roles THEN team.agent_roles[role] ELSE 0)
                   = Cardinality(with_role(role))

\* C39: after any sequence of add_dependency and remove_dependency calls on
\* the workflows of a WorkflowManager, dependencies and dependents mirror each
\* other without duplicates: for registered A and B, B is in A.dependencies
\* exactly when A is in B.dependents, and no id occurs twice in a list.
C39_DependenciesMirrored ==
    LET NoDuplicates(seq) == \A i \in 1..Len(seq), j \in 1..Len(seq) :
                                 seq[i] = seq[j] => i = j
    IN  \A a \in DOMAIN wm_workflows :
            /\ NoDuplicates(wm_workflows[a].dependencies)
            /\ NoDuplicates(wm_workflows[a].dependents)
            /\ \A b \in DOMAIN wm_workflows :
                   Contains(wm_workflows[a].dependencies, b)
                       <=> Contains(wm_workflows[b].dependents, a)

\* a dependency was removed while another one, between two workflows, stands
C39_Witness ==
    /\ wm_last.op = "remove_dependency"
    /\ \E a \in DOMAIN wm_workflows, b \in DOMAIN wm_workflows :
          /\ a # b
          /\ wm_workflows[a].dependencies = <<b>>
          /\ wm_workflows[b].dependents = <<a>>
          /\ wm_workflows[b].dependencies = << >>

\* C40: from a freshly created and started coordinator there is a sequence of
\* commands, StartWorkflow followed by TransitionPhase commands, after which
\* the current phase is Execute: a client that sends StartWorkflow and keeps
\* sending the TransitionPhase to the following phase gets there.
C40_ExecuteReachable ==
    <> (/\ coord_state.current_phase = "Execute"
        /\ pm_state.current_phase = "Execute")

====
